---- MODULE Spec2Model ----
(***************************************************************************)
(* Agent lifecycle controller of finch: the record store (GORM table       *)
(* "agents"), the controller calls RegisterAgent / DeregisterAgent /       *)
(* UpdateAgent / GetAgent / CreateAgentConfig running as concurrent        *)
(* request workers, and the detached credential-file regeneration tasks    *)
(* with their temp file, advisory lock and rename over loki-users.yaml.    *)
(***************************************************************************)
EXTENDS Integers, Sequences, FiniteSets, TLC

\* ------------------------------------------------------------------------
\* Bounds of the model
\* ------------------------------------------------------------------------
\* number of controller calls issued in one behaviour (each may overlap
\* with every other one)
MaxCalls == 2

Calls == 1..MaxCalls

\* number of dashboard websocket connections, each subscribing once
MaxSubscribers == 2
MaxClock == 2

Subs == 1..MaxSubscribers

\* ------------------------------------------------------------------------
\* Program constants
\* ------------------------------------------------------------------------
LockAttempts == 25
EventChanCap == 100
SubChanCap == 10

\* Go zero values
NoRid == 0
NoHost == ""
\* a resource id that was never generated ("non-existent-rid" in the tests)
UnknownRid == -1

ErrHostnameEmpty == "hostname must not be empty"
ErrMissingLogSource == "at least one log source must be specified"
ErrNoValidLogSource == "no valid log source specified"
ErrAgentAlreadyExists == "agent already exists"
ErrAgentNotFound == "agent not found"
ErrStoreWrite == "UNIQUE constraint failed"
ErrLockTimeout == "failed to acquire file lock"

\* ------------------------------------------------------------------------
\* net/url on the sample of strings the inputs are drawn from
\* ------------------------------------------------------------------------
\* url.Parse fails on a string whose first segment holds a colon but no scheme
UrlParseOk(s) == s # "://missing-scheme"

\* uri.Scheme: url.Parse lower-cases the scheme
UrlScheme(s) ==
  CASE s = "journal://" -> "journal"
    [] s = "journal:" -> "journal"
    [] s = "docker://" -> "docker"
    [] s = "Docker://" -> "docker"
    [] s = "docker:" -> "docker"
    [] s = "file:///var/log/syslog" -> "file"
    [] s = "invalid://source" -> "invalid"
    [] s = "http://localhost:9100/metrics" -> "http"
    [] s = "https://" -> "https"
    [] s = "ftp://host/metrics" -> "ftp"
    [] s = "file:///var/log/app.log" -> "file"
    [] s = "HTTPS://example.org:9090" -> "https"
    [] s = "https://example.org:9090" -> "https"
    [] s = "http:///metrics" -> "http"
    [] OTHER -> ""

\* uri.Host
UrlHost(s) ==
  CASE s = "invalid://source" -> "source"
    [] s = "http://localhost:9100/metrics" -> "localhost:9100"
    [] s = "ftp://host/metrics" -> "host"
    [] s = "HTTPS://example.org:9090" -> "example.org:9090"
    [] s = "https://example.org:9090" -> "example.org:9090"
    [] OTHER -> ""

\* uri.Path
UrlPath(s) ==
  CASE s = "file:///var/log/syslog" -> "/var/log/syslog"
    [] s = "file:///var/log/app.log" -> "/var/log/app.log"
    [] s = "http://localhost:9100/metrics" -> "/metrics"
    [] s = "ftp://host/metrics" -> "/metrics"
    [] s = "http:///metrics" -> "/metrics"
    [] OTHER -> ""

\* uri.String(): the scheme is lower-cased and "//" is written only when
\* host, path or userinfo is non-empty
UrlString(s) ==
  CASE s = "journal://" -> "journal:"
    [] s = "docker://" -> "docker:"
    [] s = "Docker://" -> "docker:"
    [] s = "https://" -> "https:"
    [] s = "HTTPS://example.org:9090" -> "https://example.org:9090"
    [] OTHER -> s

\* ------------------------------------------------------------------------
\* controller.Agent inputs
\* ------------------------------------------------------------------------
Hostnames == {NoHost, "h1", "h2"}

Payloads ==
  { [Labels |-> <<>>, LogSources |-> <<>>,
     Metrics |-> FALSE, MetricsTargets |-> <<>>, Profiles |-> FALSE],
    [Labels |-> <<>>, LogSources |-> <<"invalid://source">>,
     Metrics |-> FALSE, MetricsTargets |-> <<>>, Profiles |-> FALSE],
    [Labels |-> <<"env=prod">>, LogSources |-> <<"journal://", "invalid://source">>,
     Metrics |-> FALSE, MetricsTargets |-> <<>>, Profiles |-> FALSE],
    [Labels |-> <<>>, LogSources |-> <<"file:///var/log/syslog", "Docker://">>,
     Metrics |-> TRUE,
     MetricsTargets |-> <<"http://localhost:9100/metrics", "ftp://host/metrics">>,
     Profiles |-> TRUE] }

WithHostname(p, h) ==
  [Hostname |-> h, Labels |-> p.Labels, LogSources |-> p.LogSources,
   Metrics |-> p.Metrics, MetricsTargets |-> p.MetricsTargets,
   Profiles |-> p.Profiles]

Inputs == { WithHostname(p, h) : p \in Payloads, h \in Hostnames }

\* UpdateAgent takes the same type; its Hostname field is set but not used
UpdateInputs == { WithHostname(p, "h2") : p \in Payloads }

ZeroInput == WithHostname(
  [Labels |-> <<>>, LogSources |-> <<>>, Metrics |-> FALSE,
   MetricsTargets |-> <<>>, Profiles |-> FALSE], NoHost)

\* ------------------------------------------------------------------------
\* model.Agent rows
\* ------------------------------------------------------------------------
ZeroAgent ==
  [ID |-> 0, Hostname |-> NoHost, ResourceId |-> NoRid,
   Username |-> 0, Password |-> 0, PasswordHash |-> 0, RegisteredAt |-> 0,
   Labels |-> <<>>, LogSources |-> <<>>, Metrics |-> FALSE,
   MetricsTargets |-> <<>>, Profiles |-> FALSE]

IsLogScheme(s) == UrlParseOk(s) /\ UrlScheme(s) \in {"journal", "docker", "file"}

MapUrlString(xs) == [i \in 1..Len(xs) |-> UrlString(xs[i])]

\* variant: a filter that keeps every entry that parses
__parseLogSources_AnyScheme(data) ==
  IF Len(data.LogSources) = 0
  THEN [err |-> ErrMissingLogSource, val |-> <<>>]
  ELSE LET effectiveLogSources == MapUrlString(SelectSeq(data.LogSources, UrlParseOk))
       IN IF Len(effectiveLogSources) = 0
          THEN [err |-> ErrNoValidLogSource, val |-> <<>>]
          ELSE [err |-> "", val |-> effectiveLogSources]

__parseLogSources(data) ==
  IF Len(data.LogSources) = 0
  THEN [err |-> ErrMissingLogSource, val |-> <<>>]
  ELSE LET effectiveLogSources == MapUrlString(SelectSeq(data.LogSources, IsLogScheme))
       IN IF Len(effectiveLogSources) = 0
          THEN [err |-> ErrNoValidLogSource, val |-> <<>>]
          ELSE [err |-> "", val |-> effectiveLogSources]

IsMetricsTarget(s) ==
  UrlParseOk(s) /\ UrlScheme(s) \in {"http", "https"} /\ UrlHost(s) # ""

\* variant: a validation that does not look at the host
__parseMetricsTargets_AnyHost(data) ==
  MapUrlString(SelectSeq(data.MetricsTargets,
                         LAMBDA s : UrlParseOk(s) /\ UrlScheme(s) \in {"http", "https"}))

__parseMetricsTargets(data) == MapUrlString(SelectSeq(data.MetricsTargets, IsMetricsTarget))

\* variant: the log sources validated before the hostname
marshalNewAgent_LogSourcesFirst(data, k) ==
  LET ls == __parseLogSources(data)
  IN IF ls.err # ""
     THEN [err |-> ls.err, agent |-> ZeroAgent]
     ELSE IF data.Hostname = NoHost
          THEN [err |-> ErrHostnameEmpty, agent |-> ZeroAgent]
          ELSE [err |-> "",
                agent |-> [ID |-> 0, Hostname |-> data.Hostname, ResourceId |-> k,
                           Username |-> k, Password |-> k, PasswordHash |-> k,
                           RegisteredAt |-> 0,
                           Labels |-> data.Labels, LogSources |-> ls.val,
                           Metrics |-> data.Metrics,
                           MetricsTargets |-> __parseMetricsTargets(data),
                           Profiles |-> data.Profiles]]

\* uuid.New() and rand.Text() draw k give the resource id, the username, the
\* encrypted password and its hash; the row gets its ID and its registration
\* time from the store when it is inserted
marshalNewAgent(data, k) ==
  IF data.Hostname = NoHost
  THEN [err |-> ErrHostnameEmpty, agent |-> ZeroAgent]
  ELSE LET ls == __parseLogSources(data)
       IN IF ls.err # ""
          THEN [err |-> ls.err, agent |-> ZeroAgent]
          ELSE [err |-> "",
                agent |-> [ID |-> 0, Hostname |-> data.Hostname, ResourceId |-> k,
                           Username |-> k, Password |-> k, PasswordHash |-> k,
                           RegisteredAt |-> 0,
                           Labels |-> data.Labels, LogSources |-> ls.val,
                           Metrics |-> data.Metrics,
                           MetricsTargets |-> __parseMetricsTargets(data),
                           Profiles |-> data.Profiles]]

marshalUpdateAgent(existing, data) ==
  LET ls == __parseLogSources(data)
  IN IF ls.err # ""
     THEN [err |-> ls.err, agent |-> existing]
     ELSE [err |-> "",
           agent |-> [existing EXCEPT !.Labels = data.Labels,
                                      !.LogSources = ls.val,
                                      !.Metrics = data.Metrics,
                                      !.MetricsTargets = __parseMetricsTargets(data),
                                      !.Profiles = data.Profiles]]

\* ------------------------------------------------------------------------
\* internal/aes: AES-256-CTR with a base64 key, bytes as 0..255
\* ------------------------------------------------------------------------
\* a base64 string is a sequence of symbols: the 64 digits by their value,
\* the padding "=", a line break, and a character outside the alphabet
Pad == 64
LineBreak == 65
Illegal == 66

BlockSize == 16
KeySize == 32

ErrCorruptInput == "illegal base64 data"
ErrKeySize == "AES key must be 32 bytes"
ErrTooShort == "ciphertext too short"

\* base64.StdEncoding.EncodeToString: three bytes give four digits, a last
\* group of one or two bytes is padded
RECURSIVE EncodeToString(_)
EncodeToString(bytes) ==
  IF Len(bytes) = 0 THEN <<>>
  ELSE IF Len(bytes) = 1
  THEN <<bytes[1] \div 4, (bytes[1] % 4) * 16, Pad, Pad>>
  ELSE IF Len(bytes) = 2
  THEN <<bytes[1] \div 4, (bytes[1] % 4) * 16 + bytes[2] \div 16,
         (bytes[2] % 16) * 4, Pad>>
  ELSE <<bytes[1] \div 4, (bytes[1] % 4) * 16 + bytes[2] \div 16,
         (bytes[2] % 16) * 4 + bytes[3] \div 64, bytes[3] % 64>>
       \o EncodeToString(SubSeq(bytes, 4, Len(bytes)))

IsDigit(x) == x < Pad

\* base64.StdEncoding.DecodeString: line breaks are skipped; what is left is
\* groups of four digits, the last group may end in one or two "=", and the
\* unused low bits of a padded group are not checked
RECURSIVE DecodeGroups(_)
DecodeGroups(syms) ==
  IF Len(syms) = 0 THEN [ok |-> TRUE, val |-> <<>>]
  ELSE IF Len(syms) < 4 THEN [ok |-> FALSE, val |-> <<>>]
  ELSE LET a == syms[1]
           b == syms[2]
           c == syms[3]
           d == syms[4]
           last == Len(syms) = 4
       IN IF ~IsDigit(a) \/ ~IsDigit(b) THEN [ok |-> FALSE, val |-> <<>>]
          ELSE IF c = Pad
          THEN IF last /\ d = Pad
               THEN [ok |-> TRUE, val |-> <<a * 4 + b \div 16>>]
               ELSE [ok |-> FALSE, val |-> <<>>]
          ELSE IF ~IsDigit(c) THEN [ok |-> FALSE, val |-> <<>>]
          ELSE IF d = Pad
          THEN IF last
               THEN [ok |-> TRUE,
                     val |-> <<a * 4 + b \div 16, (b % 16) * 16 + c \div 4>>]
               ELSE [ok |-> FALSE, val |-> <<>>]
          ELSE IF ~IsDigit(d) THEN [ok |-> FALSE, val |-> <<>>]
          ELSE LET rest == DecodeGroups(SubSeq(syms, 5, Len(syms)))
               IN IF ~rest.ok THEN rest
                  ELSE [ok |-> TRUE,
                        val |-> <<a * 4 + b \div 16, (b % 16) * 16 + c \div 4,
                                  (c % 4) * 64 + d>> \o rest.val]

NotLineBreak(x) == x # LineBreak

DecodeString(syms) == DecodeGroups(SelectSeq(syms, NotLineBreak))

\* variant: a key decoder that does not look at the length
decodeB64Key_AnySize(b64key) ==
  LET key == DecodeString(b64key)
  IN IF ~key.ok THEN [err |-> ErrCorruptInput, val |-> <<>>]
     ELSE [err |-> "", val |-> key.val]

\* decodeB64Key, lines 75-84
decodeB64Key(b64key) ==
  LET key == DecodeString(b64key)
  IN IF ~key.ok THEN [err |-> ErrCorruptInput, val |-> <<>>]
     ELSE IF Len(key.val) # KeySize THEN [err |-> ErrKeySize, val |-> <<>>]
     ELSE [err |-> "", val |-> key.val]

RECURSIVE Xor(_, _)
Xor(a, b) ==
  IF a = 0 THEN b
  ELSE IF b = 0 THEN a
  ELSE ((a + b) % 2) + 2 * Xor(a \div 2, b \div 2)

RECURSIVE SumSeq(_)
SumSeq(xs) == IF Len(xs) = 0 THEN 0 ELSE (Len(xs) * xs[Len(xs)] + SumSeq(SubSeq(xs, 1, Len(xs) - 1))) % 256

\* the counter block of block n: the IV as a big-endian number plus n, modulo
\* 2^128
RECURSIVE AddCounter(_, _)
AddCounter(iv, n) ==
  IF Len(iv) = 0 \/ n = 0 THEN iv
  ELSE LET low == iv[Len(iv)] + n
       IN AddCounter(SubSeq(iv, 1, Len(iv) - 1), low \div 256) \o <<low % 256>>

\* byte j of the cipher block of a counter block under a key: crypto/aes is
\* a fixed function of key and block, here a weighted sum
AesBlockByte(key, block, j) == (SumSeq(key) + 3 * SumSeq(block) + 31 * j + block[j]) % 256

\* cipher.NewCTR(block, iv).XORKeyStream
XORKeyStream(key, iv, src) ==
  [i \in 1..Len(src) |->
     Xor(src[i], AesBlockByte(key, AddCounter(iv, (i - 1) \div BlockSize),
                              ((i - 1) % BlockSize) + 1))]

\* variant: a decryption that takes the whole input as ciphertext, under
\* the zero IV's key stream
Decrypt_IvAsCiphertext(b64key, encoded) ==
  LET key == decodeB64Key(b64key)
      data == DecodeString(encoded)
  IN IF key.err # "" THEN [err |-> key.err, val |-> <<>>]
     ELSE IF ~data.ok THEN [err |-> ErrCorruptInput, val |-> <<>>]
     ELSE IF Len(data.val) < BlockSize THEN [err |-> ErrTooShort, val |-> <<>>]
     ELSE [err |-> "",
           val |-> XORKeyStream(key.val, SubSeq(data.val, 1, BlockSize), data.val)]

\* Encrypt, lines 17-41, with the IV that rand.Reader gave
Encrypt(b64key, plaintext, iv) ==
  LET key == decodeB64Key(b64key)
  IN IF key.err # "" THEN [err |-> key.err, val |-> <<>>]
     ELSE [err |-> "",
           val |-> EncodeToString(iv \o XORKeyStream(key.val, iv, plaintext))]

\* Decrypt, lines 43-73
Decrypt(b64key, encoded) ==
  LET key == decodeB64Key(b64key)
      data == DecodeString(encoded)
  IN IF key.err # "" THEN [err |-> key.err, val |-> <<>>]
     ELSE IF ~data.ok THEN [err |-> ErrCorruptInput, val |-> <<>>]
     ELSE IF Len(data.val) < BlockSize THEN [err |-> ErrTooShort, val |-> <<>>]
     ELSE [err |-> "",
           val |-> XORKeyStream(key.val, SubSeq(data.val, 1, BlockSize),
                                SubSeq(data.val, BlockSize + 1, Len(data.val)))]

NoCrypt == [op |-> "none"]

\* ------------------------------------------------------------------------
\* State
\* ------------------------------------------------------------------------
VARIABLES
  db,              \* rows of table "agents" (model.Model.db)
  nextID,          \* next value of the autoincrement primary key
  draws,           \* number of uuid.New()/rand.Text() draws made so far
  agentEventChan,  \* model.Model.agentEventChan, buffered, never received from
  calls,           \* the controller calls: arguments, position, locals, result
  tasks,           \* the goroutines running generateCredentialsFile
  usersFile,       \* the file at <library>/traefik/etc/conf.d/loki-users.yaml
  locks,           \* flock(2) locks held: <<inode, task>>
  agentSubscribers,\* model.Model.agentSubscribers: the slice of subscriber channels
  subscribers,     \* the websocket handlers: position, the slice read, the channel
  clock,           \* time.Now(), in seconds
  trust,           \* the token in issue or issued last, the request answered last
  crypt,           \* the aes call made last: its arguments and what it returned
  ws               \* the dashboard websocket session: handler, read loop, connection

vars == <<db, nextID, draws, agentEventChan, calls, tasks, usersFile, locks,
          agentSubscribers, subscribers, clock, trust, crypt, ws>>

\* ------------------------------------------------------------------------
\* Record store (gorm on the agents table)
\* ------------------------------------------------------------------------
RECURSIVE RowsByID(_)
RowsByID(S) ==
  IF S = {} THEN <<>>
  ELSE LET m == CHOOSE r \in S : \A q \in S : r.ID <= q.ID
       IN <<m>> \o RowsByID(S \ {m})

\* db.Where(agent): a condition for every non-zero field of the example
WhereMatches(r, example) ==
  /\ example.Hostname # NoHost => r.Hostname = example.Hostname
  /\ example.ResourceId # NoRid => r.ResourceId = example.ResourceId

\* variant: a lookup that filters on the resource id alone
GetAgentFound_RidOnly(example) ==
  \E r \in db : example.ResourceId # NoRid /\ r.ResourceId = example.ResourceId

\* model.GetAgent: db.Where(agent).First(agent), the match of lowest ID
GetAgentFound(example) == \E r \in db : WhereMatches(r, example)

GetAgent(example) == RowsByID({ r \in db : WhereMatches(r, example) })[1]

ByHostname(h) == [ZeroAgent EXCEPT !.Hostname = h]
ByResourceId(rid) == [ZeroAgent EXCEPT !.ResourceId = rid]

\* variant: the hostname column without its unique constraint
UniqueOk_RidOnly(row) ==
  \A r \in db : r.ID # row.ID => r.ResourceId # row.ResourceId

\* the unique constraints on hostname and resource_id, checked against every
\* row but the one of the same primary key
UniqueOk(row) ==
  \A r \in db : r.ID # row.ID =>
     r.Hostname # row.Hostname /\ r.ResourceId # row.ResourceId

\* db.Create of a row without primary key: INSERT, the key is the next
\* autoincrement value and registered_at the time of the insert
CreateRow(agent) == [agent EXCEPT !.ID = nextID, !.RegisteredAt = nextID]

\* db.Save of a row with a primary key: UPDATE of all columns, and when no
\* row was affected INSERT ... ON CONFLICT DO UPDATE of the same row
SaveRows(agent) == { r \in db : r.ID # agent.ID } \cup {agent}

\* db.Delete: DELETE ... WHERE id = agent.ID, no error when no row matches
DeleteRows(agent) == { r \in db : r.ID # agent.ID }

\* model.ListAgents: db.Find
ListAgents == RowsByID(db)

\* a set of channels as a slice, in the order they were made
RECURSIVE SetToSeq(_)
SetToSeq(S) ==
  IF S = {} THEN <<>>
  ELSE LET m == CHOOSE x \in S : \A y \in S : x <= y
       IN <<m>> \o SetToSeq(S \ {m})

\* the channels the slice holds
Listed == { agentSubscribers[i] : i \in 1..Len(agentSubscribers) }

\* variant: blocking sends, which wait for room in the channel
notifyAgentEvent_Blocking(eventType) ==
  /\ Len(agentEventChan) < EventChanCap
  /\ \A s \in Listed : Len(subscribers[s].buf) < SubChanCap
  /\ agentEventChan' = Append(agentEventChan, eventType)
  /\ subscribers' = [s \in Subs |->
                       IF s \in Listed
                       THEN [subscribers[s] EXCEPT !.buf = Append(@, eventType)]
                       ELSE subscribers[s]]

\* model.notifyAgentEvent: a non-blocking send on the event channel, then one
\* on every channel of the slice
notifyAgentEvent(eventType) ==
  /\ agentEventChan' = IF Len(agentEventChan) < EventChanCap
                       THEN Append(agentEventChan, eventType)
                       ELSE agentEventChan
  /\ subscribers' = [s \in Subs |->
                       IF s \in Listed /\ Len(subscribers[s].buf) < SubChanCap
                       THEN [subscribers[s] EXCEPT !.buf = Append(@, eventType)]
                       ELSE subscribers[s]]

\* ------------------------------------------------------------------------
\* Tokens (golang-jwt) and their validation
\* ------------------------------------------------------------------------
\* claims a token does not carry, and a rid claim that is a JSON number
NoClaim == "<absent>"
NoExp == -1
NoRidClaim == -2
NumberRidClaim == -3

Secret == "secret"

\* a token string: not a JWT at all, or the header's alg, the key it was
\* signed with and its claims
JwtToken(alg, key, iss, sub, rid, iat, exp) ==
  [form |-> "jwt", alg |-> alg, key |-> key, iss |-> iss, sub |-> sub,
   rid |-> rid, iat |-> iat, exp |-> exp]

NotAToken(form) ==
  [JwtToken("", "", NoClaim, NoClaim, NoRidClaim, NoExp, NoExp) EXCEPT !.form = form]

EmptyToken == NotAToken("empty")
MalformedToken == NotAToken("malformed")

\* the key function of both validators: an HMAC method gets the shared secret
IsSigningMethodHMAC(alg) == alg \in {"HS256", "HS384", "HS512"}

\* jwt.Parse with that key function at time t: the token parses, the method is
\* HMAC, the signature verifies under the secret, and exp, when the token
\* carries it, lies after t
JwtParseValid(tok, t) ==
  /\ tok.form = "jwt"
  /\ IsSigningMethodHMAC(tok.alg)
  /\ tok.key = Secret
  /\ tok.exp # NoExp => t < tok.exp

\* claims["rid"].(string)
RidIsString(tok) == tok.rid \notin {NoRidClaim, NumberRidClaim}

\* an Authorization header: absent, or a scheme prefix and the rest
NoHeader == [prefix |-> "", tok |-> EmptyToken]

StatusOK == 200
StatusUnauthorized == 401

\* auth.Server.handleAuth, lines 178-231
handleAuth(header, t) ==
  IF header.prefix = "" /\ header.tok = EmptyToken THEN StatusUnauthorized
  ELSE IF header.prefix # "Bearer " THEN StatusUnauthorized
  ELSE IF ~JwtParseValid(header.tok, t) THEN StatusUnauthorized
  ELSE IF ~RidIsString(header.tok) THEN StatusUnauthorized
  ELSE IF ~GetAgentFound(ByResourceId(header.tok.rid)) THEN StatusUnauthorized
  ELSE StatusOK

ErrInvalidToken == "invalid token"

\* variant: a validation that compares the issuer alone
ValidateDashboardToken_IssuerOnly(tok, t) ==
  IF ~JwtParseValid(tok, t) THEN ErrInvalidToken
  ELSE IF tok.iss # "finch" THEN ErrInvalidToken
  ELSE ""

\* controller.ValidateDashboardToken, lines 52-73
ValidateDashboardToken(tok, t) ==
  IF ~JwtParseValid(tok, t) THEN ErrInvalidToken
  ELSE IF tok.iss # "finch" \/ tok.sub # "dashboard" THEN ErrInvalidToken
  ELSE ""

\* the last request answered, and the token last issued
NoTrust == [op |-> "none"]

\* no websocket request has been made: the handler and the read loop are not
\* running, currentPage and currentSearch have their initial values
NoSession ==
  [main |-> "none", reader |-> "none", upgraded |-> FALSE, token |-> EmptyToken,
   currentPage |-> 1, currentSearch |-> "", msg |-> [type |-> "", page |-> 0, search |-> ""],
   tick |-> FALSE, done |-> FALSE, updateAt |-> -1, readDuring |-> "none"]

\* ------------------------------------------------------------------------
\* Token issuance; durations and times in seconds
\* ------------------------------------------------------------------------
defaultTokenExpiration == 365 * 24 * 3600
defaultSessionTimeout == 1800

\* variant: an agent token that carries the dashboard's subject
GenerateAgentToken_DashboardSubject(resourceId, expiration, now) ==
  LET expiresAt == now + (IF expiration = 0 THEN defaultTokenExpiration ELSE expiration)
  IN [tok |-> JwtToken("HS256", Secret, "finch", "dashboard", resourceId, now, expiresAt),
      expiresAt |-> expiresAt]

\* controller.GenerateAgentToken, lines 15-33: one reading of the clock
GenerateAgentToken(resourceId, expiration, now) ==
  LET expiresAt == now + (IF expiration = 0 THEN defaultTokenExpiration ELSE expiration)
  IN [tok |-> JwtToken("HS256", Secret, "finch", "agent", resourceId, now, expiresAt),
      expiresAt |-> expiresAt]

\* controller.GetDashboardToken, lines 26-30: the expiry from the first
\* reading of the clock
DashboardExpiresAt(sessionTimeout, now) ==
  now + (IF sessionTimeout <= 0 THEN defaultSessionTimeout ELSE sessionTimeout)

\* lines 31-38: the claims, iat from a second reading of the clock
DashboardToken(expiresAt, now) ==
  JwtToken("HS256", Secret, "finch", "dashboard", NoRidClaim, now, expiresAt)

\* ------------------------------------------------------------------------
\* Configuration synthesis
\* ------------------------------------------------------------------------
\* lines 246-254: "key=value" becomes the pair key, value and a bare label
\* the pair label, "true"
FormatLabel(label) ==
  CASE label = "env=prod" -> <<"env", "prod">>
    [] OTHER -> <<label, "true">>

HasScheme(source, scheme) == UrlParseOk(source) /\ UrlScheme(source) = scheme

IsFileSource(source) == HasScheme(source, "file")

\* generateAlloyConfig, lines 240-315: the template data of a stored agent,
\* with a token of default lifetime issued at time now
generateAlloyConfig(agent, now) ==
  LET issued == GenerateAgentToken(agent.ResourceId, 0, now)
      files == SelectSeq(agent.LogSources, IsFileSource)
      targets == SelectSeq(agent.MetricsTargets, UrlParseOk)
  IN [Hostname |-> agent.Hostname,
      Token |-> issued.tok,
      TokenExpiry |-> issued.expiresAt,
      ResourceId |-> agent.ResourceId,
      LogSources |->
        [Journal |-> \E i \in 1..Len(agent.LogSources) : HasScheme(agent.LogSources[i], "journal"),
         Docker |-> \E i \in 1..Len(agent.LogSources) : HasScheme(agent.LogSources[i], "docker"),
         Files |-> [i \in 1..Len(files) |-> [__path__ |-> UrlPath(files[i])]]],
      Metrics |-> agent.Metrics,
      MetricsTargets |-> [i \in 1..Len(targets) |->
                            [Address |-> UrlHost(targets[i]),
                             MetricsPath |-> UrlPath(targets[i])]],
      Profiles |-> agent.Profiles,
      Labels |-> [i \in 1..Len(agent.Labels) |-> FormatLabel(agent.Labels[i])]]

NoConfig ==
  [host |-> NoHost, rid |-> NoRid, token |-> EmptyToken, labels |-> <<>>,
   journal |-> FALSE, docker |-> FALSE, file |-> FALSE, path_targets |-> <<>>,
   metrics |-> FALSE, scrapes |-> <<>>, profiling |-> FALSE]

\* variant: a template with the custom scrape blocks outside the metrics
\* condition
alloyTemplate_ScrapesUnconditional(data) ==
  [host |-> data.Hostname, rid |-> data.ResourceId, token |-> data.Token,
   labels |-> data.Labels,
   journal |-> data.LogSources.Journal,
   docker |-> data.LogSources.Docker,
   file |-> Len(data.LogSources.Files) > 0,
   path_targets |-> data.LogSources.Files,
   metrics |-> data.Metrics,
   scrapes |-> [i \in 1..Len(data.MetricsTargets) |->
                    [name |-> i - 1,
                     address |-> data.MetricsTargets[i].Address,
                     metrics_path |-> data.MetricsTargets[i].MetricsPath]],
   profiling |-> data.Profiles]

\* alloyTemplate, lines 15-218, executed on the data: the sections and
\* blocks of the configuration text. A range over an empty list writes
\* nothing; scrape block i is named custom_<i>, counted from 0.
alloyTemplate(data) ==
  [host |-> data.Hostname, rid |-> data.ResourceId, token |-> data.Token,
   labels |-> data.Labels,
   journal |-> data.LogSources.Journal,
   docker |-> data.LogSources.Docker,
   file |-> Len(data.LogSources.Files) > 0,
   path_targets |-> data.LogSources.Files,
   metrics |-> data.Metrics,
   scrapes |-> IF data.Metrics
               THEN [i \in 1..Len(data.MetricsTargets) |->
                       [name |-> i - 1,
                        address |-> data.MetricsTargets[i].Address,
                        metrics_path |-> data.MetricsTargets[i].MetricsPath]]
               ELSE <<>>,
   profiling |-> data.Profiles]

\* ------------------------------------------------------------------------
\* Controller calls
\* ------------------------------------------------------------------------
\* conc, after, before and events record what the call overlapped with and
\* what it found when it started, for the properties below; the code does
\* not read them
IdleCall ==
  [op |-> "none", pc |-> "idle", data |-> ZeroInput, rid |-> NoRid,
   agent |-> ZeroAgent, err |-> "", ret |-> NoRid,
   conc |-> {}, after |-> {}, before |-> {}, events |-> 0, config |-> NoConfig]

Active(c) == calls[c].pc \notin {"idle", "done"}
Done(c) == calls[c].pc = "done"

\* calls are issued in index order; any number of them may overlap
MayStart(c) ==
  /\ calls[c].pc = "idle"
  /\ \A d \in Calls : d < c => calls[d].pc # "idle"

\* the calls whose store write has completed
Written ==
  { d \in Calls : /\ calls[d].op \in {"register", "deregister", "update"}
                  /\ Done(d) /\ calls[d].err = "" }

\* the call c starts as rec
Begin(c, rec) ==
  calls' = [d \in Calls |->
              IF d = c THEN [rec EXCEPT !.conc = { e \in Calls : Active(e) },
                                        !.after = Written,
                                        !.before = db,
                                        !.events = Len(agentEventChan)]
              ELSE IF Active(d) THEN [calls[d] EXCEPT !.conc = @ \cup {c}]
              ELSE calls[d]]

\* the call returns err (and ret)
Return(rec, err, ret) == [rec EXCEPT !.pc = "done", !.err = err, !.ret = ret]

\* variant: a controller that starts no goroutine
StartTask_Never(c) == tasks' = tasks

\* the detached goroutine of lines 54-58 and 78-82
IdleTask ==
  [pc |-> "none", temp |-> FALSE, buf |-> <<>>, n |-> 0, fh |-> 0,
   err |-> ""]

StartTask(c) == tasks' = [tasks EXCEPT ![c] = [IdleTask EXCEPT !.pc = "createtemp"]]

\* RegisterAgent, lines 34-47: marshalNewAgent, then the uniqueness pre-check
RegisterStart(c, data) ==
  /\ MayStart(c)
  /\ LET m == marshalNewAgent(data, draws + 1)
         rec == [IdleCall EXCEPT !.op = "register", !.data = data]
     IN IF m.err # ""
        THEN /\ Begin(c, Return(rec, m.err, NoRid))
             /\ draws' = draws
        ELSE /\ draws' = draws + 1
             /\ IF GetAgentFound(ByHostname(data.Hostname))
                THEN Begin(c, Return(rec, ErrAgentAlreadyExists, NoRid))
                ELSE Begin(c, [rec EXCEPT !.pc = "create", !.agent = m.agent])
  /\ UNCHANGED <<db, nextID, agentEventChan, agentSubscribers, subscribers, tasks, usersFile, locks, clock, trust, crypt, ws>>

\* variant: an insert that no constraint stops
CreateAgentOk_Unconstrained(agent) == TRUE

\* model.CreateAgent: the insert fails on a unique constraint
CreateAgentOk(agent) == UniqueOk(agent)

\* RegisterAgent, lines 49-60: model.CreateAgent with its event, the
\* goroutine, the return of the resource id
RegisterCreate(c) ==
  /\ calls[c].op = "register" /\ calls[c].pc = "create"
  /\ IF CreateAgentOk(calls[c].agent)
     THEN LET row == CreateRow(calls[c].agent)
          IN /\ db' = db \cup {row}
             /\ nextID' = nextID + 1
             /\ notifyAgentEvent("create")
             /\ agentSubscribers' = agentSubscribers
             /\ StartTask(c)
             /\ calls' = [calls EXCEPT ![c] =
                            Return([@ EXCEPT !.agent = row], "", row.ResourceId)]
     ELSE /\ calls' = [calls EXCEPT ![c] = Return(@, ErrStoreWrite, NoRid)]
          /\ UNCHANGED <<db, nextID, agentEventChan, agentSubscribers, subscribers, tasks>>
  /\ UNCHANGED <<draws, usersFile, locks, clock, trust, crypt, ws>>

\* the resource ids a caller can pass: the empty string, one that was never
\* generated, and every one generated so far
RidArgs == {NoRid, UnknownRid} \cup (1..draws)

\* DeregisterAgent, lines 64-72: the lookup by resource id
DeregisterStart(c, rid) ==
  /\ MayStart(c)
  /\ LET rec == [IdleCall EXCEPT !.op = "deregister", !.rid = rid]
     IN IF GetAgentFound(ByResourceId(rid))
        THEN Begin(c, [rec EXCEPT !.pc = "delete", !.agent = GetAgent(ByResourceId(rid))])
        ELSE Begin(c, Return(rec, ErrAgentNotFound, NoRid))
  /\ UNCHANGED <<db, nextID, draws, agentEventChan, agentSubscribers, subscribers, tasks, usersFile, locks, clock, trust, crypt, ws>>

\* DeregisterAgent, lines 74-84: model.DeleteAgent with its event, the
\* goroutine, the return of nil
DeregisterDelete(c) ==
  /\ calls[c].op = "deregister" /\ calls[c].pc = "delete"
  /\ db' = DeleteRows(calls[c].agent)
  /\ notifyAgentEvent("delete")
  /\ agentSubscribers' = agentSubscribers
  /\ StartTask(c)
  /\ calls' = [calls EXCEPT ![c] = Return(@, "", NoRid)]
  /\ UNCHANGED <<nextID, draws, usersFile, locks, clock, trust, crypt, ws>>

\* UpdateAgent, lines 158-171: the lookup by resource id and marshalUpdateAgent
UpdateStart(c, rid, data) ==
  /\ MayStart(c)
  /\ LET rec == [IdleCall EXCEPT !.op = "update", !.rid = rid, !.data = data]
     IN IF ~GetAgentFound(ByResourceId(rid))
        THEN Begin(c, Return(rec, ErrAgentNotFound, NoRid))
        ELSE LET m == marshalUpdateAgent(GetAgent(ByResourceId(rid)), data)
             IN IF m.err # ""
                THEN Begin(c, Return(rec, m.err, NoRid))
                ELSE Begin(c, [rec EXCEPT !.pc = "save", !.agent = m.agent])
  /\ UNCHANGED <<db, nextID, draws, agentEventChan, agentSubscribers, subscribers, tasks, usersFile, locks, clock, trust, crypt, ws>>

\* model.UpdateAgent: db.Save fails on a unique constraint
UpdateAgentOk(agent) == UniqueOk(agent)

\* UpdateAgent, lines 173-178: model.UpdateAgent with its event
UpdateSave(c) ==
  /\ calls[c].op = "update" /\ calls[c].pc = "save"
  /\ IF UpdateAgentOk(calls[c].agent)
     THEN /\ db' = SaveRows(calls[c].agent)
          /\ notifyAgentEvent("update")
          /\ agentSubscribers' = agentSubscribers
          /\ calls' = [calls EXCEPT ![c] = Return(@, "", NoRid)]
     ELSE /\ calls' = [calls EXCEPT ![c] = Return(@, ErrStoreWrite, NoRid)]
          /\ UNCHANGED <<db, agentEventChan, agentSubscribers, subscribers>>
  /\ UNCHANGED <<nextID, draws, tasks, usersFile, locks, clock, trust, crypt, ws>>

\* ------------------------------------------------------------------------
\* The read-only controller calls
\* ------------------------------------------------------------------------
\* the read-only calls: look the agent up by resource id, return it or fail
ReadCall(c, op, rid) ==
  /\ MayStart(c)
  /\ LET rec == [IdleCall EXCEPT !.op = op, !.rid = rid]
     IN IF GetAgentFound(ByResourceId(rid))
        THEN LET agent == GetAgent(ByResourceId(rid))
             IN Begin(c, Return([rec EXCEPT !.agent = agent], "", agent.ResourceId))
        ELSE Begin(c, Return(rec, ErrAgentNotFound, NoRid))
  /\ UNCHANGED <<db, nextID, draws, agentEventChan, agentSubscribers, subscribers, tasks, usersFile, locks, clock, trust, crypt, ws>>

\* GetAgent, lines 137-155
GetAgentCall(c, rid) == ReadCall(c, "get", rid)

\* CreateAgentConfig, lines 87-114: the configuration of the agent found
CreateAgentConfig(c, rid) ==
  /\ MayStart(c)
  /\ LET rec == [IdleCall EXCEPT !.op = "config", !.rid = rid]
     IN IF GetAgentFound(ByResourceId(rid))
        THEN LET agent == GetAgent(ByResourceId(rid))
                 config == alloyTemplate(generateAlloyConfig(agent, clock))
             IN Begin(c, Return([rec EXCEPT !.agent = agent, !.config = config],
                                "", agent.ResourceId))
        ELSE Begin(c, Return(rec, ErrAgentNotFound, NoRid))
  /\ UNCHANGED <<db, nextID, draws, agentEventChan, agentSubscribers, subscribers, tasks,
                 usersFile, locks, clock, trust, crypt, ws>>

\* ListAgents, lines 116-135: the rid and hostname of every row
ListAgentsCall(c) ==
  /\ MayStart(c)
  /\ Begin(c, Return([IdleCall EXCEPT !.op = "list"], "", NoRid))
  /\ UNCHANGED <<db, nextID, draws, agentEventChan, agentSubscribers, subscribers, tasks, usersFile, locks, clock, trust, crypt, ws>>

\* ------------------------------------------------------------------------
\* Subscribers of the entity-changed events
\* ------------------------------------------------------------------------
IdleSubscriber == [pc |-> "idle", old |-> <<>>, buf |-> <<>>]

\* SubscribeAgentEvents, lines 28-29: make the channel and read the slice
\* header to append to; nothing orders this read with other appends
SubscribeLoad(s) ==
  /\ subscribers[s].pc = "idle"
  /\ subscribers' = [subscribers EXCEPT ![s] =
                       [@ EXCEPT !.pc = "append", !.old = agentSubscribers]]
  /\ UNCHANGED <<db, nextID, draws, agentEventChan, calls, tasks, usersFile, locks,
                 agentSubscribers, clock, trust, crypt, ws>>

\* SubscribeAgentEvents, lines 29-30: store the appended slice and return
\* the channel
SubscribeStore(s) ==
  /\ subscribers[s].pc = "append"
  /\ agentSubscribers' = Append(subscribers[s].old, s)
  /\ subscribers' = [subscribers EXCEPT ![s] = [@ EXCEPT !.pc = "subscribed", !.old = <<>>]]
  /\ UNCHANGED <<db, nextID, draws, agentEventChan, calls, tasks, usersFile, locks, clock, trust, crypt, ws>>

\* ------------------------------------------------------------------------
\* generateCredentialsFile
\* ------------------------------------------------------------------------
NoIno == 0
\* the inode of a credential file that exists when the process starts
InitIno == 1000
\* the inode of task c's temporary file, and of the file its lock open creates
TempIno(c) == c
LockIno(c) == 0 - c

NoFile == [ino |-> NoIno, content |-> <<>>]

\* lokiUsersTemplate: the header, then one line per agent or the line - ""
HeaderLine == <<-1, -1>>
EmptyUserLine == <<0, 0>>
UserLine(agent) == <<agent.Username, agent.PasswordHash>>

Render(agents) ==
  <<HeaderLine>> \o
  (IF Len(agents) = 0 THEN <<EmptyUserLine>>
   ELSE [i \in 1..Len(agents) |-> UserLine(agents[i])])

\* variant: a task without the deferred os.Remove, which leaves its temporary
\* file behind when the write fails
TaskRender_NoDeferredRemove(c) ==
  /\ tasks[c].pc = "createtemp"
  /\ LET out == Render(ListAgents)
     IN \/ tasks' = [tasks EXCEPT ![c] = [@ EXCEPT !.pc = "done", !.err = "createtemp"]]
        \/ tasks' = [tasks EXCEPT ![c] = [@ EXCEPT !.pc = "return", !.temp = TRUE,
                                                  !.err = "list"]]
        \/ \E k \in 0..(Len(out) - 1) :
             tasks' = [tasks EXCEPT ![c] = [@ EXCEPT !.pc = "done", !.temp = TRUE,
                                                     !.err = "write",
                                                     !.buf = SubSeq(out, 1, k)]]
        \/ tasks' = [tasks EXCEPT ![c] = [@ EXCEPT !.pc = "open", !.temp = TRUE,
                                                  !.buf = out]]
  /\ UNCHANGED <<db, nextID, draws, agentEventChan, agentSubscribers, subscribers, calls, usersFile, locks, clock, trust, crypt, ws>>

\* lines 38-65: os.CreateTemp with the deferred os.Remove, then list the
\* agents, render the template and write the temporary file; each of the
\* three can fail
TaskRender(c) ==
  /\ tasks[c].pc = "createtemp"
  /\ LET out == Render(ListAgents)
     IN \/ tasks' = [tasks EXCEPT ![c] = [@ EXCEPT !.pc = "done", !.err = "createtemp"]]
        \/ tasks' = [tasks EXCEPT ![c] = [@ EXCEPT !.pc = "return", !.temp = TRUE,
                                                  !.err = "list"]]
        \/ \E k \in 0..(Len(out) - 1) :
             tasks' = [tasks EXCEPT ![c] = [@ EXCEPT !.pc = "return", !.temp = TRUE,
                                                     !.err = "write",
                                                     !.buf = SubSeq(out, 1, k)]]
        \/ tasks' = [tasks EXCEPT ![c] = [@ EXCEPT !.pc = "open", !.temp = TRUE,
                                                  !.buf = out]]
  /\ UNCHANGED <<db, nextID, draws, agentEventChan, agentSubscribers, subscribers, calls, usersFile, locks, clock, trust, crypt, ws>>

\* line 70, first half of flock.TryLock: open(usersFile, O_CREATE|O_RDONLY)
TaskTryLockOpen(c) ==
  /\ tasks[c].pc = "open"
  /\ IF usersFile.ino = NoIno
     THEN /\ usersFile' = [ino |-> LockIno(c), content |-> <<>>]
          /\ tasks' = [tasks EXCEPT ![c] = [@ EXCEPT !.pc = "flock", !.fh = LockIno(c)]]
     ELSE /\ usersFile' = usersFile
          /\ tasks' = [tasks EXCEPT ![c] = [@ EXCEPT !.pc = "flock", !.fh = usersFile.ino]]
  /\ UNCHANGED <<db, nextID, draws, agentEventChan, agentSubscribers, subscribers, calls, locks, clock, trust, crypt, ws>>

\* flock(fd, LOCK_EX|LOCK_NB) succeeds unless another open file holds a lock
\* on the same inode
FlockFree(ino, c) == \A l \in locks : l[1] = ino => l[2] = c

\* lines 69-78, second half of flock.TryLock and the retry loop: on
\* EWOULDBLOCK the file is closed again and the attempt is used up; n is
\* dead once the loop is left
TaskTryLockFlock(c) ==
  /\ tasks[c].pc = "flock"
  /\ IF FlockFree(tasks[c].fh, c)
     THEN /\ locks' = locks \cup {<<tasks[c].fh, c>>}
          /\ tasks' = [tasks EXCEPT ![c] = [@ EXCEPT !.pc = "rename", !.n = 0]]
     ELSE /\ locks' = locks
          /\ tasks' = [tasks EXCEPT ![c] =
                         IF tasks[c].n + 1 = LockAttempts
                         THEN [@ EXCEPT !.pc = "return", !.fh = NoIno, !.n = 0,
                                        !.err = ErrLockTimeout]
                         ELSE [@ EXCEPT !.pc = "open", !.fh = NoIno, !.n = @ + 1]]
  /\ UNCHANGED <<db, nextID, draws, agentEventChan, agentSubscribers, subscribers, calls, usersFile, clock, trust, crypt, ws>>

\* lines 83-91: os.Rename(f.Name(), usersFile), then os.Chmod(usersFile,
\* 0600), which leaves the mode CreateTemp gave the file; each can fail
TaskRename(c) ==
  /\ tasks[c].pc = "rename"
  /\ \/ /\ usersFile' = usersFile
        /\ tasks' = [tasks EXCEPT ![c] = [@ EXCEPT !.pc = "return", !.err = "rename"]]
     \/ /\ usersFile' = [ino |-> TempIno(c), content |-> tasks[c].buf]
        /\ \E ok \in BOOLEAN :
             tasks' = [tasks EXCEPT ![c] =
                         [@ EXCEPT !.pc = "return", !.temp = FALSE,
                                   !.err = IF ok THEN "" ELSE "chmod"]]
  /\ UNCHANGED <<db, nextID, draws, agentEventChan, agentSubscribers, subscribers, calls, locks, clock, trust, crypt, ws>>

\* variant: a task that reports its failure into the call that started it
\* and takes the call's store change back
TaskReturn_Synchronous(c) ==
  /\ tasks[c].pc = "return"
  /\ locks' = { l \in locks : l[2] # c }
  /\ tasks' = [tasks EXCEPT ![c] = [@ EXCEPT !.pc = "done", !.temp = FALSE, !.buf = <<>>,
                                            !.fh = NoIno]]
  /\ IF tasks[c].err = ""
     THEN UNCHANGED <<db, calls>>
     ELSE /\ calls' = [calls EXCEPT ![c] = [@ EXCEPT !.err = tasks[c].err, !.ret = NoRid]]
          /\ db' = IF calls[c].op = "register" THEN DeleteRows(calls[c].agent) ELSE db
  /\ UNCHANGED <<nextID, draws, agentEventChan, agentSubscribers, subscribers, usersFile, clock, trust, crypt, ws>>

\* the deferred calls, last first: fileLock.Unlock() of lines 79-81 when the
\* lock was taken, os.Remove(f.Name()) of lines 42-44
TaskReturn(c) ==
  /\ tasks[c].pc = "return"
  /\ locks' = { l \in locks : l[2] # c }
  /\ tasks' = [tasks EXCEPT ![c] = [@ EXCEPT !.pc = "done", !.temp = FALSE, !.buf = <<>>,
                                            !.fh = NoIno]]
  /\ UNCHANGED <<db, nextID, draws, agentEventChan, agentSubscribers, subscribers, calls, usersFile, clock, trust, crypt, ws>>

\* ------------------------------------------------------------------------
\* Initial states and next-state relations
\* ------------------------------------------------------------------------
\* an agent registered by an earlier run of the process
InitAgent ==
  [ID |-> 1, Hostname |-> "h1", ResourceId |-> 1,
   Username |-> 1, Password |-> 1, PasswordHash |-> 1, RegisteredAt |-> 1,
   Labels |-> <<>>, LogSources |-> <<"journal:">>, Metrics |-> FALSE,
   MetricsTargets |-> <<>>, Profiles |-> FALSE]

\* a fresh installation, or a store holding one agent with its credential
\* file generated
Init ==
  /\ \/ db = {} /\ nextID = 1 /\ draws = 0 /\ usersFile = NoFile
     \/ /\ db = {InitAgent} /\ nextID = 2 /\ draws = 1
        /\ usersFile = [ino |-> InitIno, content |-> Render(<<InitAgent>>)]
  /\ agentEventChan = <<>>
  /\ calls = [c \in Calls |-> IdleCall]
  /\ tasks = [c \in Calls |-> IdleTask]
  /\ locks = {}
  /\ agentSubscribers = <<>>
  /\ subscribers = [s \in Subs |-> IdleSubscriber]
  /\ clock = 0
  /\ trust = NoTrust
  /\ crypt = NoCrypt
  /\ ws = NoSession

\* the controller calls against the record store
CallStep(c) ==
  \/ \E data \in Inputs : RegisterStart(c, data)
  \/ RegisterCreate(c)
  \/ \E rid \in RidArgs : DeregisterStart(c, rid)
  \/ DeregisterDelete(c)
  \/ \E rid \in RidArgs, data \in UpdateInputs : UpdateStart(c, rid, data)
  \/ UpdateSave(c)
  \/ \E rid \in RidArgs : GetAgentCall(c, rid)
  \/ \E rid \in RidArgs : CreateAgentConfig(c, rid)
  \/ ListAgentsCall(c)

\* the steps of the regeneration task started by call c
TaskStep(c) ==
  \/ TaskRender(c)
  \/ TaskTryLockOpen(c)
  \/ TaskTryLockFlock(c)
  \/ TaskRename(c)
  \/ TaskReturn(c)

\* the calls alone: the tasks they start are not scheduled
Next == \E c \in Calls : CallStep(c)

Spec == Init /\ [][Next]_vars

\* the calls that start a regeneration task, together with the tasks; the
\* c-th call, when it is a registration, registers the c-th hostname
FileHostnames == <<"h1", "h2", "h3", "h4", "h5">>

FileInput(c) ==
  WithHostname([Labels |-> <<>>, LogSources |-> <<"journal://">>, Metrics |-> FALSE,
                MetricsTargets |-> <<>>, Profiles |-> FALSE], FileHostnames[c])

FileCallStep(c) ==
  \/ RegisterStart(c, FileInput(c))
  \/ RegisterCreate(c)
  \/ \E rid \in 1..draws : DeregisterStart(c, rid)
  \/ DeregisterDelete(c)

NextFile == \E c \in Calls : FileCallStep(c) \/ TaskStep(c)

SpecFile == Init /\ [][NextFile]_vars

\* the same with the scheduler's guarantee: a task that has been started is a
\* goroutine that keeps being run; none of its steps waits for another
\* task, since the lock attempts do not block and the sleeps between them end
SpecFileFair == SpecFile /\ \A c \in Calls : WF_vars(TaskStep(c))

\* the store writes together with the subscribers of their events; the
\* process has run for a while: one agent is stored, some handlers have
\* subscribed, and the channels hold what earlier updates left there and
\* the handlers have not taken yet
UpdateInput ==
  WithHostname([Labels |-> <<"env=prod">>, LogSources |-> <<"journal://">>,
                Metrics |-> FALSE, MetricsTargets |-> <<>>, Profiles |-> FALSE], NoHost)

Filled(n) == [i \in 1..n |-> "update"]

InitEvents ==
  /\ db = {InitAgent} /\ nextID = 2 /\ draws = 1
  /\ usersFile = [ino |-> InitIno, content |-> Render(<<InitAgent>>)]
  /\ calls = [c \in Calls |-> IdleCall]
  /\ tasks = [c \in Calls |-> IdleTask]
  /\ locks = {}
  /\ \E n \in {0, EventChanCap - 1, EventChanCap} : agentEventChan = Filled(n)
  /\ \E S \in SUBSET Subs :
       /\ agentSubscribers = SetToSeq(S)
       /\ \E fill \in [S -> {0, SubChanCap - 1, SubChanCap}] :
            subscribers = [s \in Subs |->
                             IF s \in S
                             THEN [pc |-> "subscribed", old |-> <<>>, buf |-> Filled(fill[s])]
                             ELSE IdleSubscriber]
  /\ clock = 0
  /\ trust = NoTrust
  /\ crypt = NoCrypt
  /\ ws = NoSession

EventCallStep(c) ==
  \/ RegisterStart(c, FileInput(c))
  \/ RegisterCreate(c)
  \/ \E rid \in 1..draws : DeregisterStart(c, rid)
  \/ DeregisterDelete(c)
  \/ \E rid \in 1..draws : UpdateStart(c, rid, UpdateInput)
  \/ UpdateSave(c)

SubscriberStep(s) ==
  \/ SubscribeLoad(s)
  \/ SubscribeStore(s)

NextEvents ==
  \/ \E c \in Calls : EventCallStep(c)
  \/ \E s \in Subs : SubscriberStep(s)

SpecEvents == InitEvents /\ [][NextEvents]_vars

\* ------------------------------------------------------------------------
\* The trust endpoints: requests with any token against a changing store
\* ------------------------------------------------------------------------
Algs == {"HS256", "HS512", "RS256"}
Keys == {Secret, "other"}
Issuers == {"finch", "other", NoClaim}
Subjects == {"agent", "dashboard", NoClaim}
RidClaims == {NoRidClaim, NumberRidClaim, NoRid, UnknownRid} \cup (1..MaxCalls)
Expiries == {NoExp} \cup (1..MaxClock)

Tokens ==
  { JwtToken(alg, key, iss, sub, rid, 0, exp) :
      alg \in Algs, key \in Keys, iss \in Issuers, sub \in Subjects,
      rid \in RidClaims, exp \in Expiries }
  \cup {EmptyToken, MalformedToken}

Headers ==
  {NoHeader, [prefix |-> "Basic ", tok |-> MalformedToken]}
  \cup { [prefix |-> "Bearer ", tok |-> tok] : tok \in Tokens }

\* time passes
Tick ==
  /\ clock < MaxClock
  /\ clock' = clock + 1
  /\ UNCHANGED <<db, nextID, draws, agentEventChan, calls, tasks, usersFile, locks,
                 agentSubscribers, subscribers, trust, crypt, ws>>

\* a request to the agent auth endpoint; the answer is recorded with the
\* resource ids stored at that moment
AuthRequest(header) ==
  /\ trust = NoTrust
  /\ trust' = [op |-> "auth", header |-> header, status |-> handleAuth(header, clock),
               at |-> clock, rids |-> { r.ResourceId : r \in db }]
  /\ UNCHANGED <<db, nextID, draws, agentEventChan, calls, tasks, usersFile, locks,
                 agentSubscribers, subscribers, clock, crypt, ws>>

\* a dashboard request: the middleware validates the presented token
DashboardRequest(tok) ==
  /\ trust = NoTrust
  /\ trust' = [op |-> "validate", tok |-> tok, err |-> ValidateDashboardToken(tok, clock),
               at |-> clock]
  /\ UNCHANGED <<db, nextID, draws, agentEventChan, calls, tasks, usersFile, locks,
                 agentSubscribers, subscribers, clock, crypt, ws>>

\* the client has read the answer; the next request can be made
CloseRequest ==
  /\ trust # NoTrust
  /\ trust' = NoTrust
  /\ UNCHANGED <<db, nextID, draws, agentEventChan, calls, tasks, usersFile, locks,
                 agentSubscribers, subscribers, clock, crypt, ws>>

TrustCallStep(c) ==
  \/ RegisterStart(c, FileInput(c))
  \/ RegisterCreate(c)
  \/ \E rid \in 1..draws : DeregisterStart(c, rid)
  \/ DeregisterDelete(c)

NextTrust ==
  \/ \E c \in Calls : TrustCallStep(c)
  \/ Tick
  \/ \E header \in Headers : AuthRequest(header)
  \/ CloseRequest

SpecTrust == Init /\ [][NextTrust]_vars

\* the dashboard middleware, which does not read the store
NextDashboard ==
  \/ Tick
  \/ \E tok \in Tokens : DashboardRequest(tok)
  \/ CloseRequest

SpecDashboard == Init /\ [][NextDashboard]_vars

\* ------------------------------------------------------------------------
\* Configuration requests against agents that are registered and updated
\* ------------------------------------------------------------------------
ConfigPayloads ==
  { [Labels |-> <<"env=prod", "edge">>, LogSources |-> <<"journal://">>,
     Metrics |-> TRUE,
     MetricsTargets |-> <<"HTTPS://example.org:9090", "ftp://host/metrics",
                          "http:///metrics", "http://localhost:9100/metrics",
                          "://missing-scheme">>,
     Profiles |-> FALSE],
    [Labels |-> <<>>,
     LogSources |-> <<"file:///var/log/syslog", "Docker://", "file:///var/log/app.log">>,
     Metrics |-> FALSE,
     MetricsTargets |-> <<"http://localhost:9100/metrics">>,
     Profiles |-> TRUE],
    [Labels |-> <<>>, LogSources |-> <<"docker://">>,
     Metrics |-> TRUE, MetricsTargets |-> <<"https://">>, Profiles |-> FALSE],
    [Labels |-> <<>>, LogSources |-> <<"invalid://source">>,
     Metrics |-> TRUE, MetricsTargets |-> <<"http://localhost:9100/metrics">>,
     Profiles |-> TRUE] }

ConfigInputs(c) == { WithHostname(p, FileHostnames[c + 1]) : p \in ConfigPayloads }

ConfigCallStep(c) ==
  \/ \E data \in ConfigInputs(c) : RegisterStart(c, data)
  \/ RegisterCreate(c)
  \/ \E rid \in RidArgs, data \in ConfigInputs(c) : UpdateStart(c, rid, data)
  \/ UpdateSave(c)
  \/ \E rid \in RidArgs : CreateAgentConfig(c, rid)

NextConfig ==
  \/ \E c \in Calls : ConfigCallStep(c)
  \/ Tick

SpecConfig == Init /\ [][NextConfig]_vars

\* ------------------------------------------------------------------------
\* Registrations and updates with every drawn payload
\* ------------------------------------------------------------------------
MarshalInputs(c) ==
  ConfigInputs(c) \cup { WithHostname(p, FileHostnames[c + 1]) : p \in Payloads }
  \cup { WithHostname(p, NoHost) : p \in Payloads }

MarshalCallStep(c) ==
  \/ \E data \in MarshalInputs(c) : RegisterStart(c, data)
  \/ RegisterCreate(c)
  \/ \E rid \in RidArgs, data \in MarshalInputs(c) : UpdateStart(c, rid, data)
  \/ UpdateSave(c)

NextMarshal == \E c \in Calls : MarshalCallStep(c)

SpecMarshal == Init /\ [][NextMarshal]_vars

\* ------------------------------------------------------------------------
\* Calls of internal/aes
\* ------------------------------------------------------------------------
Key32 == [i \in 1..KeySize |-> 48 + (i % 10)]
OtherKey32 == [i \in 1..KeySize |-> 255 - 7 * i]
ShortKey == <<115, 104, 111, 114, 116, 32, 107, 101, 121>>
LongKey == [i \in 1..KeySize + 1 |-> i]

\* key strings: of two 32-byte keys, one of them also broken over two lines,
\* of a 9-byte and a 33-byte key, the empty string, a string with a
\* character outside the alphabet, and a string cut short
B64Keys ==
  { EncodeToString(Key32),
    EncodeToString(OtherKey32),
    SubSeq(EncodeToString(Key32), 1, 20) \o <<LineBreak>>
      \o SubSeq(EncodeToString(Key32), 21, 44),
    EncodeToString(ShortKey),
    EncodeToString(LongKey),
    <<>>,
    <<34, 39, 47, Illegal, 26, 40, 45, 30>>,
    SubSeq(EncodeToString(Key32), 1, 43) }

Plaintexts ==
  { <<>>, <<0>>, <<255, 0>>, <<112, 108, 97>>, [i \in 1..BlockSize + 1 |-> (15 * i) % 256] }

IVs ==
  { [i \in 1..BlockSize |-> 0], [i \in 1..BlockSize |-> 255],
    [i \in 1..BlockSize |-> (37 * i) % 256] }

\* ciphertext arguments: the empty string, one that is not base64, one of 15
\* bytes, one of an IV alone, one of an IV and three bytes
Encodeds ==
  { <<>>, <<Illegal, 1, 2, 3>>,
    EncodeToString([i \in 1..BlockSize - 1 |-> i]),
    EncodeToString([i \in 1..BlockSize |-> i]),
    EncodeToString([i \in 1..BlockSize + 3 |-> 200 + i]) }

NotDecrypted == [err |-> "not called", val |-> <<>>]

EncryptCall(b64key, plaintext, iv) ==
  /\ crypt' = [op |-> "encrypt", key |-> b64key, arg |-> plaintext, iv |-> iv,
               out |-> Encrypt(b64key, plaintext, iv), back |-> NotDecrypted]
  /\ UNCHANGED <<db, nextID, draws, agentEventChan, calls, tasks, usersFile, locks,
                 agentSubscribers, subscribers, clock, trust, ws>>

\* Decrypt of what the last Encrypt returned, under the same key string
DecryptEncrypted ==
  /\ crypt.op = "encrypt"
  /\ crypt.out.err = ""
  /\ crypt.back = NotDecrypted
  /\ crypt' = [crypt EXCEPT !.back = Decrypt(crypt.key, crypt.out.val)]
  /\ UNCHANGED <<db, nextID, draws, agentEventChan, calls, tasks, usersFile, locks,
                 agentSubscribers, subscribers, clock, trust, ws>>

DecryptCall(b64key, encoded) ==
  /\ crypt' = [op |-> "decrypt", key |-> b64key, arg |-> encoded, iv |-> <<>>,
               out |-> Decrypt(b64key, encoded), back |-> NotDecrypted]
  /\ UNCHANGED <<db, nextID, draws, agentEventChan, calls, tasks, usersFile, locks,
                 agentSubscribers, subscribers, clock, trust, ws>>

NextAes ==
  \/ \E b64key \in B64Keys, plaintext \in Plaintexts, iv \in IVs :
       EncryptCall(b64key, plaintext, iv)
  \/ DecryptEncrypted
  \/ \E b64key \in B64Keys, encoded \in Encodeds : DecryptCall(b64key, encoded)

SpecAes == Init /\ [][NextAes]_vars

\* ------------------------------------------------------------------------
\* The operator interceptor (grpc.AuthInterceptor)
\* ------------------------------------------------------------------------
\* PEM input: bytes that hold no certificate, or a certificate with its
\* issuer, validity and extended key usages
NoCert == [form |-> "garbage", issuer |-> "", notBefore |-> 0, notAfter |-> 0, eku |-> {}]

Cert(issuer, notBefore, notAfter, eku) ==
  [form |-> "cert", issuer |-> issuer, notBefore |-> notBefore, notAfter |-> notAfter,
   eku |-> eku]

\* the request: without metadata, without the certificate header, or with a
\* header value
NoMetadata == [md |-> FALSE, values |-> <<>>]
NoCertHeader == [md |-> TRUE, values |-> <<>>]
WithCertHeader(cert) == [md |-> TRUE, values |-> <<cert>>]

\* the CA file: unreadable, or its bytes
Unreadable == [readable |-> FALSE, pem |-> NoCert]
CaFile(pem) == [readable |-> TRUE, pem |-> pem]

\* parseCertFromPEM, lines 83-95
parseCertFromPEMOk(pem) == pem.form = "cert"

InValidity(cert, now) == cert.notBefore <= now /\ now <= cert.notAfter

\* variant: a verification that accepts any key usage
clientCertIsValid_AnyUsage(clientPEM, caPEM, now) ==
  /\ parseCertFromPEMOk(clientPEM)
  /\ parseCertFromPEMOk(caPEM)
  /\ clientPEM.issuer = "ca"
  /\ InValidity(clientPEM, now)
  /\ InValidity(caPEM, now)

\* clientCertIsValid, lines 97-122: both parse and the client certificate
\* chains to the CA as the one root, at the current time, for client
\* authentication (a certificate without extended key usages serves any)
clientCertIsValid(clientPEM, caPEM, now) ==
  /\ parseCertFromPEMOk(clientPEM)
  /\ parseCertFromPEMOk(caPEM)
  /\ clientPEM.issuer = "ca"
  /\ InValidity(clientPEM, now)
  /\ InValidity(caPEM, now)
  /\ clientPEM.eku = {} \/ clientPEM.eku \cap {"clientAuth", "any"} # {}

Teapot == [code |-> 418, message |-> "I'm a teapot"]
NoStatus == [code |-> 0, message |-> ""]

\* authenticate, lines 54-81
authenticate(req, ca, now) ==
  IF ~req.md THEN Teapot
  ELSE IF Len(req.values) = 0 THEN Teapot
  ELSE IF ~ca.readable THEN Teapot
  ELSE IF ~clientCertIsValid(req.values[1], ca.pem, now) THEN Teapot
  ELSE NoStatus

ClientCerts ==
  {NoCert} \cup
  { Cert(issuer, nb, na, eku) :
      issuer \in {"ca", "other"}, nb \in {0, 1}, na \in {1, MaxClock},
      eku \in {{}, {"clientAuth"}, {"serverAuth"}, {"serverAuth", "clientAuth"}} }

Requests == {NoMetadata, NoCertHeader} \cup { WithCertHeader(cert) : cert \in ClientCerts }

CaFiles ==
  {Unreadable, CaFile(NoCert)} \cup { CaFile(Cert("ca", 0, na, {})) : na \in {1, MaxClock} }

\* Unary, lines 40-52: the wrapped handler runs when authenticate returns nil
Unary(req, ca) ==
  /\ trust = NoTrust
  /\ LET err == authenticate(req, ca, clock)
     IN trust' = [op |-> "rpc", req |-> req, ca |-> ca, at |-> clock,
                  status |-> err, handled |-> (err = NoStatus)]
  /\ UNCHANGED <<db, nextID, draws, agentEventChan, calls, tasks, usersFile, locks,
                 agentSubscribers, subscribers, clock, crypt, ws>>

NextOperator ==
  \/ Tick
  \/ \E req \in Requests, ca \in CaFiles : Unary(req, ca)
  \/ CloseRequest

SpecOperator == Init /\ [][NextOperator]_vars

\* ------------------------------------------------------------------------
\* Issued tokens at the two validators
\* ------------------------------------------------------------------------
Lifetimes == {-1, 0, 1, 900}

NotPresented == 0
Unchecked == "unchecked"

\* the issuing call and what became of its token: the requested lifetime,
\* the time the call was made, the expiry returned, the token, and the
\* answers of the two validators once the token was presented to them
Issued(class, n, at, expiresAt, tok, pc) ==
  [op |-> "issue", class |-> class, pc |-> pc, n |-> n, at |-> at,
   expiresAt |-> expiresAt, tok |-> tok, status |-> NotPresented, err |-> Unchecked]

IssueAgentToken(rid, d) ==
  /\ trust = NoTrust
  /\ LET r == GenerateAgentToken(rid, d, clock)
     IN trust' = Issued("agent", d, clock, r.expiresAt, r.tok, "done")
  /\ UNCHANGED <<db, nextID, draws, agentEventChan, calls, tasks, usersFile, locks,
                 agentSubscribers, subscribers, clock, crypt, ws>>

GetDashboardTokenExpiry(n) ==
  /\ trust = NoTrust
  /\ trust' = Issued("dashboard", n, clock, DashboardExpiresAt(n, clock), EmptyToken, "claims")
  /\ UNCHANGED <<db, nextID, draws, agentEventChan, calls, tasks, usersFile, locks,
                 agentSubscribers, subscribers, clock, crypt, ws>>

GetDashboardTokenSign ==
  /\ trust # NoTrust
  /\ trust.pc = "claims"
  /\ trust' = [trust EXCEPT !.pc = "done", !.tok = DashboardToken(trust.expiresAt, clock)]
  /\ UNCHANGED <<db, nextID, draws, agentEventChan, calls, tasks, usersFile, locks,
                 agentSubscribers, subscribers, clock, crypt, ws>>

\* the issued token at the agent auth endpoint
PresentToAuth ==
  /\ trust # NoTrust
  /\ trust.pc = "done"
  /\ trust' = [trust EXCEPT
                 !.status = handleAuth([prefix |-> "Bearer ", tok |-> trust.tok], clock)]
  /\ UNCHANGED <<db, nextID, draws, agentEventChan, calls, tasks, usersFile, locks,
                 agentSubscribers, subscribers, clock, crypt, ws>>

\* the issued token at the dashboard middleware
PresentToDashboard ==
  /\ trust # NoTrust
  /\ trust.pc = "done"
  /\ trust' = [trust EXCEPT !.err = ValidateDashboardToken(trust.tok, clock)]
  /\ UNCHANGED <<db, nextID, draws, agentEventChan, calls, tasks, usersFile, locks,
                 agentSubscribers, subscribers, clock, crypt, ws>>

NextIssue ==
  \/ \E c \in Calls : TrustCallStep(c)
  \/ Tick
  \/ \E rid \in RidArgs, d \in Lifetimes : IssueAgentToken(rid, d)
  \/ \E n \in Lifetimes : GetDashboardTokenExpiry(n)
  \/ GetDashboardTokenSign
  \/ PresentToAuth
  \/ PresentToDashboard

SpecIssue == Init /\ [][NextIssue]_vars

\* ------------------------------------------------------------------------
\* Vocabulary of the properties
\* ------------------------------------------------------------------------
\* call c ran with no other call in progress at any time
Solo(c) == calls[c].conc = {}

\* no call was issued after call c
Latest(c) == \A d \in Calls : d > c => calls[d].pc = "idle"

HostnamesOf(rows) == { r.Hostname : r \in rows }
RidsOf(rows) == { r.ResourceId : r \in rows }

\* what the documented validation order makes of an input, stated on the
\* input alone
HasUsableLogSource(data) ==
  \E i \in 1..Len(data.LogSources) :
     UrlScheme(data.LogSources[i]) \in {"journal", "docker", "file"}

ExpectedValidationError(data) ==
  IF data.Hostname = "" THEN "hostname must not be empty"
  ELSE IF data.LogSources = <<>> THEN "at least one log source must be specified"
  ELSE IF ~HasUsableLogSource(data) THEN "no valid log source specified"
  ELSE ""

\* ------------------------------------------------------------------------
\* Properties of the calls against the record store (Spec)
\* ------------------------------------------------------------------------
\* C1: in every reachable state, under any interleaving of concurrent calls,
\* no two stored agent records share a hostname and no two share a resource
\* id.
C1_UniqueHostnameAndRid ==
  \A r1, r2 \in db :
     r1 # r2 => r1.Hostname # r2.Hostname /\ r1.ResourceId # r2.ResourceId

\* two registrations of one hostname overlapped, both passed the pre-check,
\* and the store refused the second insert
C1_Witness ==
  \E c, d \in Calls :
     /\ c # d /\ d \in calls[c].conc
     /\ calls[c].op = "register" /\ calls[d].op = "register"
     /\ calls[c].data.Hostname = calls[d].data.Hostname
     /\ calls[c].err = ErrStoreWrite /\ Done(d) /\ calls[d].err = ""
     /\ Cardinality({ r \in db : r.Hostname = calls[c].data.Hostname }) = 1

Raced(c, d) ==
  /\ c < d
  /\ calls[c].op = "register" /\ calls[d].op = "register"
  /\ Done(c) /\ Done(d) /\ Latest(d)
  /\ calls[c].conc = {d} /\ calls[d].conc = {c}
  /\ calls[c].data.Hostname = calls[d].data.Hostname
  /\ ExpectedValidationError(calls[c].data) = ""
  /\ ExpectedValidationError(calls[d].data) = ""
  /\ calls[c].data.Hostname \notin HostnamesOf(calls[c].before)

\* of two raced calls w won and l lost
WonOver(w, l) ==
  /\ calls[w].err = ""
  /\ calls[w].ret # NoRid
  /\ { r \in db : r.Hostname = calls[w].data.Hostname }
       = { r \in db : r.ResourceId = calls[w].ret }
  /\ Cardinality({ r \in db : r.Hostname = calls[w].data.Hostname }) = 1
  /\ calls[l].err = IF w \in calls[l].after
                    THEN "agent already exists" ELSE ErrStoreWrite
  /\ calls[l].ret = NoRid
  /\ tasks[l].pc = "none"
  /\ tasks[w].pc # "none"

C5_ValidationFirst ==
  [][ \A c \in Calls :
        ( /\ calls[c].pc = "idle" /\ calls'[c].op = "register"
          /\ ExpectedValidationError(calls'[c].data) # "" )
        => /\ calls'[c].pc = "done"
           /\ calls'[c].err = ExpectedValidationError(calls'[c].data)
           /\ calls'[c].ret = NoRid
           /\ UNCHANGED <<db, nextID, agentEventChan, agentSubscribers, subscribers, tasks, usersFile, clock, trust, crypt, ws>> ]_vars

\* an input without a valid log source, for a hostname that is stored
C5_Witness ==
  \E c \in Calls :
     /\ calls[c].op = "register" /\ Done(c) /\ Latest(c)
     /\ calls[c].data.Hostname \in HostnamesOf(calls[c].before)
     /\ calls[c].err = ErrNoValidLogSource
     /\ db = calls[c].before

\* C6: with no concurrent call, DeregisterAgent(rid) for a rid that is not in
\* the store returns ErrAgentNotFound and changes nothing; for a stored rid
\* it removes exactly that agent and returns nil, and GetAgent, UpdateAgent,
\* CreateAgentConfig and DeregisterAgent for that rid return
\* ErrAgentNotFound afterwards.
C6_DeregisterContract ==
  /\ \A c \in Calls :
       (calls[c].op = "deregister" /\ Done(c) /\ Solo(c))
       => IF calls[c].rid \notin RidsOf(calls[c].before)
          THEN /\ calls[c].err = "agent not found"
               /\ Latest(c) => db = calls[c].before
          ELSE /\ calls[c].err = ""
               /\ Latest(c) =>
                    db = { r \in calls[c].before : r.ResourceId # calls[c].rid }
  /\ \A c, d \in Calls :
       ( /\ c < d /\ Solo(c) /\ Solo(d) /\ Done(d)
         /\ calls[c].op = "deregister" /\ calls[c].err = ""
         /\ calls[c].rid \in RidsOf(calls[c].before)
         /\ calls[d].op \in {"get", "update", "config", "deregister"}
         /\ calls[d].rid = calls[c].rid )
       => calls[d].err = "agent not found"

\* the fields UpdateAgent must leave alone
SameIdentity(q, r) ==
  /\ q.ID = r.ID /\ q.Hostname = r.Hostname /\ q.ResourceId = r.ResourceId
  /\ q.Username = r.Username /\ q.Password = r.Password
  /\ q.PasswordHash = r.PasswordHash /\ q.RegisteredAt = r.RegisteredAt

\* C7: a successful UpdateAgent(rid, input) changes only the labels, log
\* sources, metrics flag, metrics targets and profiles flag of the agent with
\* that rid; its hostname, resource id, username, password, password hash and
\* registration time, and every field of every other agent, stay as they
\* were; a failed UpdateAgent changes no stored field.
C7_UpdateFrame ==
  \A c \in Calls :
     (calls[c].op = "update" /\ Done(c) /\ Solo(c) /\ Latest(c))
     => IF calls[c].err = ""
        THEN /\ \A r \in calls[c].before :
                  IF r.ResourceId = calls[c].rid
                  THEN \E q \in db : SameIdentity(q, r)
                  ELSE r \in db
             /\ Cardinality(db) = Cardinality(calls[c].before)
        ELSE db = calls[c].before

\* ------------------------------------------------------------------------
\* Properties of the regeneration tasks (SpecFile)
\* ------------------------------------------------------------------------
\* every call of the behaviour is a registration, they all overlapped, the
\* store was empty when the first began, all have returned, and every task
\* they started has run to its end without an error
AllRegisteredAndRegenerated ==
  /\ \A c \in Calls :
        /\ calls[c].op = "register" /\ Done(c)
        /\ calls[c].conc = Calls \ {c}
        /\ tasks[c].pc \in {"none", "done"} /\ tasks[c].err = ""
  /\ \A c \in Calls : calls[c].before = {}

\* C2: when several RegisterAgent calls with pairwise distinct hostnames run
\* concurrently against an empty store, all of them succeed, and once every
\* regeneration task they started has finished, the credential file lists
\* the username/hash line of every registered agent and of no other.
C2_FinalFileListsAllAgents ==
  AllRegisteredAndRegenerated
  => /\ \A c \in Calls : calls[c].err = "" /\ tasks[c].pc = "done"
     /\ Cardinality(db) = MaxCalls
     /\ usersFile.ino # NoIno
     /\ usersFile.content = Render(ListAgents)

\* C8: a task that fails to acquire the file lock in all 25 attempts returns
\* "failed to acquire file lock" without renaming anything, and the file at
\* the target path is the one that was there before the task started: it is
\* neither the task's temporary file nor a file the task created.
C8_LockTimeoutLeavesTarget ==
  \A c \in Calls :
     tasks[c].err = "failed to acquire file lock"
     => usersFile.ino \notin {TempIno(c), LockIno(c)}

\* a sequence of lines is a complete rendering of some list of agents
IsRendering(content) ==
  /\ Len(content) >= 2
  /\ content[1] = HeaderLine
  /\ \/ content = <<HeaderLine, EmptyUserLine>>
     \/ \A i \in 2..Len(content) : \E k \in 1..draws : content[i] = <<k, k>>

\* C9: at every instant a reader of the target path sees either no file or
\* one complete rendering of the agent list, never an empty or partially
\* written file, also during the first regeneration and while a task holds
\* or is acquiring the lock.
C9_ReaderSeesCompleteFile ==
  usersFile.ino # NoIno => IsRendering(usersFile.content)

\* C10: the result of RegisterAgent and DeregisterAgent is fixed before the
\* regeneration task runs and never depends on it: the call has returned the
\* resource id (respectively nil) when the task is started, and no step of
\* the task, failing or not, changes the result of any call or the store.
C10_ResultIndependentOfTask ==
  [][ \A c \in Calls :
        /\ (tasks[c].pc = "none" /\ tasks'[c].pc # "none")
           => /\ calls'[c].pc = "done" /\ calls'[c].err = ""
              /\ calls'[c].op = "register"
                   => calls'[c].ret \in RidsOf(db') \ RidsOf(db)
              /\ calls'[c].op = "deregister"
                   => calls'[c].ret = NoRid /\ calls'[c].agent \notin db'
        /\ (tasks[c].pc # "none" /\ tasks'[c] # tasks[c])
           => /\ calls[c].pc = "done" /\ calls[c].err = ""
              /\ UNCHANGED <<calls, db>> ]_vars

\* a registration returned its resource id, its task then ran into the lock
\* timeout and ended, and the record is still stored
C10_Witness ==
  \E c \in Calls :
     /\ calls[c].op = "register" /\ Done(c) /\ calls[c].err = ""
     /\ tasks[c].pc = "done" /\ tasks[c].err = ErrLockTimeout
     /\ calls[c].ret \in RidsOf(db)

\* ------------------------------------------------------------------------
\* Regeneration tasks and the calls that start them (Spec)
\* ------------------------------------------------------------------------
\* C11: every successful RegisterAgent and DeregisterAgent starts exactly one
\* regeneration task, in the step that has completed its store write; a call
\* of any other kind and every failed call starts none.
C11_OneTaskPerCreateDelete ==
  [][ \A c \in Calls :
        /\ (tasks[c].pc = "none" /\ tasks'[c].pc # "none")
           <=> /\ calls[c].pc # "done" /\ calls'[c].pc = "done"
               /\ calls'[c].err = ""
               /\ calls'[c].op \in {"register", "deregister"}
        /\ (tasks[c].pc = "none" /\ tasks'[c].pc # "none")
           => /\ tasks'[c].pc = "createtemp"
              /\ \A d \in Calls \ {c} : tasks'[d] = tasks[d]
              /\ calls'[c].op = "register" => calls'[c].agent \in db' \ db
              /\ calls'[c].op = "deregister" => calls'[c].agent \notin db'
        /\ tasks[c].pc # "none" => tasks'[c] = tasks[c] ]_vars

\* a deregistration has started its task and a successful call of another
\* kind has started none
C11_Witness ==
  \E c, d \in Calls :
     /\ calls[c].op = "deregister" /\ Done(c) /\ calls[c].err = ""
     /\ tasks[c].pc = "createtemp"
     /\ calls[d].op \in {"update", "get", "config", "list"} /\ Done(d)
     /\ calls[d].err = ""
     /\ tasks[d].pc = "none"

\* ------------------------------------------------------------------------
\* Entity-changed events (SpecEvents)
\* ------------------------------------------------------------------------
\* the event a write of this kind publishes
EventOf(op) ==
  CASE op = "register" -> "create"
    [] op = "deregister" -> "delete"
    [] op = "update" -> "update"

\* a call that has passed its lookup can always take its write step
WriteNeverBlocks ==
  \A c \in Calls :
     /\ calls[c].pc = "create" => ENABLED RegisterCreate(c)
     /\ calls[c].pc = "delete" => ENABLED DeregisterDelete(c)
     /\ calls[c].pc = "save" => ENABLED UpdateSave(c)

\* the step of a successful write offers its event to the event channel and
\* to every subscribed channel, each taking it iff it has room; a failed
\* write offers nothing
EventOffered ==
  \A c \in Calls :
     (calls[c].pc \in {"create", "delete", "save"} /\ calls'[c].pc = "done")
     => IF calls'[c].err = ""
        THEN LET ev == EventOf(calls[c].op)
             IN /\ agentEventChan' = IF Len(agentEventChan) < 100
                                     THEN agentEventChan \o <<ev>>
                                     ELSE agentEventChan
                /\ \A s \in Subs :
                     subscribers'[s].buf =
                       IF s \in Listed /\ Len(subscribers[s].buf) < 10
                       THEN subscribers[s].buf \o <<ev>>
                       ELSE subscribers[s].buf
        ELSE UNCHANGED <<agentEventChan, subscribers>>

\* C12: every successful create, update and delete publishes one event and
\* publishing never blocks the writer: whatever the fill of the subscriber
\* channels (capacity 10) and of the event channel (capacity 100), the write
\* returns, every subscriber with room gets the event, and it is dropped
\* only for the full ones.
C12_PublishNeverBlocks == []WriteNeverBlocks /\ [][EventOffered]_vars

\* a deregistration returned while the event channel and one subscriber
\* were full and another subscriber had room: only the latter holds the event
C12_Witness ==
  \E c \in Calls, s, t \in Listed :
     /\ calls[c].op = "deregister" /\ Done(c) /\ calls[c].err = ""
     /\ Len(agentEventChan) = EventChanCap
     /\ agentEventChan[EventChanCap] # "delete"
     /\ subscribers[s].buf = Filled(SubChanCap)
     /\ subscribers[t].buf # <<>>
     /\ subscribers[t].buf[Len(subscribers[t].buf)] = "delete"

\* C13: the agent auth endpoint answers 200 if and only if the request has an
\* Authorization header "Bearer <token>", the token is HMAC-signed with the
\* shared secret and not expired, it carries a string rid claim, and an agent
\* with that resource id is in the store at the moment of the request; every
\* other request is answered 401.
C13_AuthOkIffAgentStored ==
  trust.op = "auth" =>
    LET tok == trust.header.tok
        accepted ==
          /\ trust.header.prefix = "Bearer "
          /\ tok.form = "jwt"
          /\ tok.alg \in {"HS256", "HS384", "HS512"}
          /\ tok.key = Secret
          /\ tok.exp = NoExp \/ trust.at < tok.exp
          /\ tok.rid \notin {NoRidClaim, NumberRidClaim}
          /\ tok.rid \in trust.rids
    IN trust.status = IF accepted THEN StatusOK ELSE StatusUnauthorized

\* C14: a bearer token whose issuer claim is not "finch" or whose subject
\* claim is not "agent", or that lacks one of them, is answered 401 by the
\* agent auth endpoint, whatever its signature, expiry and rid claim.
C14_IssuerAndSubjectRequired ==
  ( /\ trust.op = "auth"
    /\ trust.header.tok.form = "jwt"
    /\ trust.header.tok.iss # "finch" \/ trust.header.tok.sub # "agent" )
  => trust.status = StatusUnauthorized

\* C15: ValidateDashboardToken returns nil if and only if the token's
\* signature verifies under the shared secret with an HMAC algorithm, the
\* token is not expired, its issuer is "finch" and its subject is
\* "dashboard"; every other input, malformed and empty included, gets the
\* one error ErrInvalidToken.
C15_DashboardTokenValidIff ==
  trust.op = "validate" =>
    LET tok == trust.tok
        valid ==
          /\ tok.form = "jwt"
          /\ tok.alg \in {"HS256", "HS384", "HS512"}
          /\ tok.key = Secret
          /\ tok.exp = NoExp \/ trust.at < tok.exp
          /\ tok.iss = "finch"
          /\ tok.sub = "dashboard"
    IN trust.err = IF valid THEN "" ELSE "invalid token"

\* a dashboard token with an expiry still ahead is accepted after time has
\* passed
C15_Witness ==
  /\ trust.op = "validate"
  /\ trust.err = ""
  /\ trust.at > 0
  /\ trust.tok.exp # NoExp

\* C16: a token issued by GenerateAgentToken is never accepted by
\* ValidateDashboardToken, and a token issued by GetDashboardToken is never
\* accepted by the agent auth endpoint, whatever agents are stored.
C16_TokenClassesNotInterchangeable ==
  trust.op = "issue" =>
    /\ trust.class = "agent" => trust.err # ""
    /\ trust.class = "dashboard" => trust.status # StatusOK

\* an unexpired dashboard token was presented to both validators while an
\* agent was stored: the dashboard accepted it, the agent endpoint did not
C16_Witness ==
  /\ trust.op = "issue"
  /\ trust.class = "dashboard"
  /\ trust.err = ""
  /\ trust.status = StatusUnauthorized
  /\ db # {}

\* C17: GetDashboardToken(0) returns a token expiring at issue time + 1800 s
\* and GetDashboardToken(N), N > 0, at issue time + N s; GenerateAgentToken
\* with lifetime 0 at issue time + 365 days and with d > 0 at issue time + d;
\* the exp claim equals the returned expiry and the iat claim the issue time.
C17_LifetimeAndClaims ==
  (trust.op = "issue" /\ trust.pc = "done" /\ trust.n >= 0) =>
    LET lifetime == IF trust.n > 0 THEN trust.n
                    ELSE IF trust.class = "dashboard" THEN 1800 ELSE 31536000
    IN /\ trust.expiresAt = trust.at + lifetime
       /\ trust.tok.exp = trust.expiresAt
       /\ trust.tok.iat = trust.at

PassesValidation(target) ==
  /\ target # "://missing-scheme"
  /\ UrlScheme(target) \in {"http", "https"}
  /\ UrlHost(target) # ""

\* the row of the agent as call c found it in the store
RowBefore(c) == CHOOSE r \in calls[c].before : r.ID = calls[c].agent.ID

\* update c switched the metrics flag of its agent from false to true and
\* configuration call d, begun after c had returned, found the row c stored
SwitchedOnThenConfigured(c, d) ==
  /\ calls[c].op = "update" /\ Done(c) /\ calls[c].err = ""
  /\ \E r \in calls[c].before : r.ID = calls[c].agent.ID
  /\ ~RowBefore(c).Metrics
  /\ calls[c].data.Metrics
  /\ calls[d].op = "config" /\ Done(d) /\ calls[d].err = ""
  /\ c \in calls[d].after
  /\ calls[d].agent = calls[c].agent

\* C19: after UpdateAgent switched an agent's metrics flag from false to true
\* and supplied metrics targets, the next CreateAgentConfig for that agent
\* contains the metrics section and exactly one scrape block per supplied
\* target that passed validation, in input order, and none for a rejected
\* target; a configuration of an agent whose flag is false, as before the
\* update, contains no metrics section and no scrape block.
C19_MetricsSwitchedOn ==
  /\ \A c, d \in Calls :
       SwitchedOnThenConfigured(c, d) =>
         LET passed == SelectSeq(calls[c].data.MetricsTargets, PassesValidation)
             scrapes == calls[d].config.scrapes
         IN /\ calls[d].config.metrics
            /\ Len(scrapes) = Len(passed)
            /\ \A i \in 1..Len(passed) :
                 /\ scrapes[i].address = UrlHost(passed[i])
                 /\ scrapes[i].metrics_path = UrlPath(passed[i])
  /\ \A d \in Calls :
       ( /\ calls[d].op = "config" /\ Done(d) /\ calls[d].err = ""
         /\ ~calls[d].agent.Metrics )
       => ~calls[d].config.metrics /\ calls[d].config.scrapes = <<>>

\* the update supplied two targets that pass and three that do not
C19_Witness ==
  \E c, d \in Calls :
    /\ SwitchedOnThenConfigured(c, d)
    /\ Len(calls[c].data.MetricsTargets) = 5
    /\ Len(calls[d].config.scrapes) = 2

SourcesWithScheme(agent, scheme) ==
  SelectSeq(agent.LogSources, LAMBDA source : UrlScheme(source) = scheme)

\* C20: the configuration returned for a stored agent contains the journal
\* section iff a stored log source has scheme journal, the docker section iff
\* one has scheme docker, the file section iff one has scheme file, with one
\* path target per file source in stored order, the metrics section iff the
\* metrics flag is set, custom scrape blocks only when the flag is set, and
\* the profiling section iff the profiles flag is set.
C20_SectionsFollowStoredAgent ==
  \A d \in Calls :
    (calls[d].op = "config" /\ Done(d) /\ calls[d].err = "") =>
      LET agent == calls[d].agent
          config == calls[d].config
          files == SourcesWithScheme(agent, "file")
      IN /\ agent \in calls[d].before
         /\ config.journal <=> SourcesWithScheme(agent, "journal") # <<>>
         /\ config.docker <=> SourcesWithScheme(agent, "docker") # <<>>
         /\ config.file <=> files # <<>>
         /\ Len(config.path_targets) = Len(files)
         /\ \A i \in 1..Len(files) : config.path_targets[i].__path__ = UrlPath(files[i])
         /\ config.metrics <=> agent.Metrics
         /\ ~agent.Metrics => config.scrapes = <<>>
         /\ agent.Metrics => Len(config.scrapes) = Len(agent.MetricsTargets)
         /\ config.profiling <=> agent.Profiles

\* an agent stored with metrics targets and two file sources, its metrics
\* flag not set, got a configuration without scrape blocks
C20_Witness ==
  \E d \in Calls :
    /\ calls[d].op = "config" /\ Done(d) /\ calls[d].err = ""
    /\ ~calls[d].agent.Metrics
    /\ calls[d].agent.MetricsTargets # <<>>
    /\ Len(calls[d].config.path_targets) = 2
    /\ calls[d].config.scrapes = <<>>

\* an input entry is a log source of an allowed scheme
AllowedLogSource(source) ==
  source # "://missing-scheme" /\ UrlScheme(source) \in {"journal", "docker", "file"}

\* the step in which register or update call c returns
Returns(c) ==
  /\ calls[c].pc # "done" /\ calls'[c].pc = "done"
  /\ calls'[c].op \in {"register", "update"}

\* the call fails exactly on the log sources when no entry is allowed, and on
\* nothing the lists hold otherwise; the metrics targets decide nothing
ListsDecideFailure(c) ==
  LET allowed == SelectSeq(calls'[c].data.LogSources, AllowedLogSource)
  IN /\ allowed = <<>> => calls'[c].err # ""
     /\ calls'[c].err \in {ErrMissingLogSource, ErrNoValidLogSource} => allowed = <<>>
     /\ allowed # <<>> =>
          calls'[c].err \in {"", ErrHostnameEmpty, ErrAgentAlreadyExists,
                             ErrAgentNotFound, ErrStoreWrite}

\* C21 as stated: RegisterAgent and UpdateAgent store as log sources exactly
\* the input entries of scheme journal, docker or file, in order, and fail
\* only when there is none; they store as metrics targets exactly the input
\* entries that parse as http or https URIs with a host, in order, and the
\* metrics targets never make the request fail.
C21_StoresInputEntries ==
  [][ \A c \in Calls :
        Returns(c) =>
          /\ ListsDecideFailure(c)
          /\ calls'[c].err = "" =>
               /\ calls'[c].agent \in db'
               /\ calls'[c].agent.LogSources =
                    SelectSeq(calls'[c].data.LogSources, AllowedLogSource)
               /\ calls'[c].agent.MetricsTargets =
                    SelectSeq(calls'[c].data.MetricsTargets, PassesValidation) ]_vars

\* C21, amended: the stored entries are the allowed input entries in input
\* order, each in the form uri.String() gives it (scheme in lower case, no
\* "//" before an empty authority and path); failure as stated.
C21_StoresNormalisedEntries ==
  [][ \A c \in Calls :
        Returns(c) =>
          /\ ListsDecideFailure(c)
          /\ calls'[c].err = "" =>
               LET sources == SelectSeq(calls'[c].data.LogSources, AllowedLogSource)
                   targets == SelectSeq(calls'[c].data.MetricsTargets, PassesValidation)
               IN /\ calls'[c].agent \in db'
                  /\ calls'[c].agent.LogSources =
                       [i \in 1..Len(sources) |-> UrlString(sources[i])]
                  /\ calls'[c].agent.MetricsTargets =
                       [i \in 1..Len(targets) |-> UrlString(targets[i])] ]_vars

\* one call stored fewer log sources than it was given, another fewer
\* metrics targets, and both succeeded
C21_Witness ==
  \E c, d \in Calls :
    /\ calls[c].op \in {"register", "update"} /\ Done(c) /\ calls[c].err = ""
    /\ calls[c].agent.LogSources = <<"journal:">>
    /\ Len(calls[c].data.LogSources) = 2
    /\ calls[d].op \in {"register", "update"} /\ Done(d) /\ calls[d].err = ""
    /\ Len(calls[d].data.MetricsTargets) = 5
    /\ Len(calls[d].agent.MetricsTargets) = 2

\* C22: for every base64 key that decodes to exactly 32 bytes and every
\* plaintext, the empty one included, Decrypt(key, Encrypt(key, plaintext))
\* succeeds and returns exactly the plaintext, whatever IV Encrypt drew.
C22_DecryptInvertsEncrypt ==
  ( /\ crypt.op = "encrypt"
    /\ DecodeString(crypt.key).ok
    /\ Len(DecodeString(crypt.key).val) = 32 )
  => /\ crypt.out.err = ""
     /\ crypt.back # NotDecrypted => crypt.back = [err |-> "", val |-> crypt.arg]

\* a plaintext longer than one cipher block came back, encrypted under the
\* IV of all ones with a key string that holds a line break
C22_Witness ==
  /\ crypt.op = "encrypt"
  /\ crypt.back = [err |-> "", val |-> crypt.arg]
  /\ Len(crypt.arg) > 16
  /\ crypt.iv[1] = 255
  /\ Len(crypt.key) = 45
  /\ crypt.out.val # EncodeToString(crypt.iv \o crypt.arg)

\* C23: for a key string that is not valid base64 Encrypt and Decrypt fail
\* with the decoding error, for a key that decodes to a length other than 32
\* bytes with the key-size error; no output is returned, and the error is the
\* same whatever the plaintext or ciphertext argument is.
C23_KeyCheckedFirst ==
  crypt.op \in {"encrypt", "decrypt"} =>
    LET key == DecodeString(crypt.key)
    IN /\ ~key.ok => crypt.out = [err |-> "illegal base64 data", val |-> <<>>]
       /\ (key.ok /\ Len(key.val) # 32) =>
            crypt.out = [err |-> "AES key must be 32 bytes", val |-> <<>>]

\* Decrypt was given a key of 33 bytes and a ciphertext that is not base64,
\* and reported the key
C23_Witness ==
  /\ crypt.op = "decrypt"
  /\ Len(DecodeString(crypt.key).val) = 33
  /\ ~DecodeString(crypt.arg).ok
  /\ crypt.out.err = "AES key must be 32 bytes"

\* the tasks between a successful lock attempt and their unlock
LockHolders == { l[2] : l \in locks }

\* C24: at most one regeneration task at a time is between a successful lock
\* acquisition and its unlock; while one task holds the lock taken on the
\* target path no other task's lock attempt succeeds, also after the
\* holder's rename has replaced the file at that path.
C24_OneLockHolder == Cardinality(LockHolders) <= 1

\* the rows deleted by the deregister calls that have returned nil
Deregistered ==
  { calls[d].agent : d \in { e \in Calls : /\ calls[e].op = "deregister"
                                            /\ Done(e) /\ calls[e].err = "" } }

\* C25: once DeregisterAgent(rid) has returned nil, no later state of the
\* store contains an agent with that resource id or with the deleted record's
\* key, also when an UpdateAgent that read the agent before the deletion
\* saves its whole record after it.
C25_DeregisteredStaysDeleted ==
  \A a \in Deregistered :
    \A r \in db : r.ID # a.ID /\ r.ResourceId # a.ResourceId

\* ------------------------------------------------------------------------
\* The dashboard auth middleware
\* ------------------------------------------------------------------------
StatusSeeOther == 303

\* r.Cookie("dashboard_token") found no cookie of that name
NoCookie == [present |-> FALSE, value |-> EmptyToken]

\* the cookie is sent with that value
Cookie(tok) == [present |-> TRUE, value |-> tok]

\* the next handler ran and answered
Served == [next |-> TRUE, status |-> StatusOK, location |-> "", clearCookie |-> FALSE]

\* http.Error and http.Redirect: the middleware answered itself
Answered(status, location, clearCookie) ==
  [next |-> FALSE, status |-> status, location |-> location, clearCookie |-> clearCookie]

\* the token the middleware goes on with, lines 48-63
MiddlewareToken(r) ==
  IF r.auth # NoHeader THEN r.auth.tok
  ELSE IF r.cookie.present THEN r.cookie.value
  ELSE r.query

\* variant: the cookie is looked at before the Authorization header
authMiddleware_CookieFirst(r, t) ==
  LET token == IF r.cookie.present THEN r.cookie.value
               ELSE IF r.auth # NoHeader THEN r.auth.tok ELSE r.query
  IN IF ~r.cookie.present /\ r.auth # NoHeader /\ r.auth.prefix # "Bearer "
     THEN Answered(StatusUnauthorized, "", FALSE)
     ELSE IF token = EmptyToken
     THEN IF r.path # "/login" THEN Answered(StatusSeeOther, "/login", FALSE) ELSE Served
     ELSE IF ValidateDashboardToken(token, t) # ""
     THEN IF r.path = "/ws" THEN Answered(StatusUnauthorized, "", TRUE)
          ELSE Answered(StatusSeeOther, "/login?error=expired", TRUE)
     ELSE Served

\* Server.authMiddleware, lines 44-92, on request r at time t
authMiddleware(r, t) ==
  IF r.auth # NoHeader /\ r.auth.prefix # "Bearer "
  THEN Answered(StatusUnauthorized, "", FALSE)
  ELSE IF MiddlewareToken(r) = EmptyToken
  THEN IF r.path # "/login" THEN Answered(StatusSeeOther, "/login", FALSE) ELSE Served
  ELSE IF ValidateDashboardToken(MiddlewareToken(r), t) # ""
  THEN IF r.path = "/ws" THEN Answered(StatusUnauthorized, "", TRUE)
       ELSE Answered(StatusSeeOther, "/login?error=expired", TRUE)
  ELSE Served

\* the tokens a dashboard client sends: none, garbage, dashboard tokens with
\* and without a expiry, an agent token, a token signed with another key
MiddlewareTokens ==
  { EmptyToken, MalformedToken,
    JwtToken("HS256", Secret, "finch", "dashboard", NoRidClaim, 0, 1),
    JwtToken("HS256", Secret, "finch", "dashboard", NoRidClaim, 0, NoExp),
    JwtToken("HS256", Secret, "finch", "agent", 1, 0, NoExp),
    JwtToken("HS256", "other", "finch", "dashboard", NoRidClaim, 0, NoExp) }

MiddlewareHeaders ==
  {NoHeader, [prefix |-> "Basic ", tok |-> MalformedToken],
   [prefix |-> "", tok |-> JwtToken("HS256", Secret, "finch", "dashboard", NoRidClaim, 0, NoExp)]}
  \cup { [prefix |-> "Bearer ", tok |-> tok] : tok \in MiddlewareTokens }

MiddlewareRequests ==
  [auth : MiddlewareHeaders,
   cookie : {NoCookie} \cup { Cookie(tok) : tok \in MiddlewareTokens },
   query : MiddlewareTokens,
   path : {"/login", "/ws", "/dashboard"}]

\* a request through the middleware
ServeHTTP(r) ==
  /\ trust = NoTrust
  /\ trust' = [op |-> "middleware", r |-> r, w |-> authMiddleware(r, clock), at |-> clock]
  /\ UNCHANGED <<db, nextID, draws, agentEventChan, calls, tasks, usersFile, locks,
                 agentSubscribers, subscribers, clock, crypt, ws>>

NextMiddleware ==
  \/ Tick
  \/ \E r \in MiddlewareRequests : ServeHTTP(r)
  \/ CloseRequest

SpecMiddleware == Init /\ [][NextMiddleware]_vars

\* the token the claim's order selects: the Authorization header when there
\* is one, otherwise the cookie when there is one, otherwise the parameter
Selected(r) ==
  IF r.auth.prefix # "" \/ r.auth.tok # EmptyToken THEN r.auth.tok
  ELSE IF r.cookie.present THEN r.cookie.value
  ELSE r.query

Subscribed == { s \in Subs : subscribers[s].pc = "subscribed" }

\* C27: every channel returned by SubscribeAgentEvents is in the subscriber
\* list afterwards, also when subscribe calls run concurrently with each
\* other or with a publish; no subscription is lost, so every later event is
\* offered to that channel.
C27_NoSubscriptionLost == Subscribed \subseteq Listed

\* ------------------------------------------------------------------------
\* The dashboard websocket session: handleWebSocket and its read loop
\* ------------------------------------------------------------------------
\* time.NewTicker(30 * time.Second), line 231, in seconds
TickerPeriod == 30
MaxTicks == 3

\* the subscriber slot of the session's SubscribeAgentEvents call
WsSub == 1

WsCookies ==
  { NoCookie,
    Cookie(JwtToken("HS256", Secret, "finch", "dashboard", NoRidClaim, 0, TickerPeriod)),
    Cookie(JwtToken("HS256", Secret, "finch", "dashboard", NoRidClaim, 0, NoExp)) }

\* the messages a client sends that get a reply
WSMessages ==
  { [type |-> "get_agents", page |-> 2, search |-> "web"],
    [type |-> "get_agents", page |-> 0, search |-> ""],
    [type |-> "get_credentials", page |-> 0, search |-> ""] }

\* the handler is in its select loop or in a write made from it
Running == ws.main \in {"select", "agents", "stats", "close"}

\* handleWebSocket, lines 176-203: the cookie, the upgrade, the first four
\* updates, the subscription and the start of the read loop
handleWebSocket(cookie) ==
  /\ ws.main = "none"
  /\ subscribers[WsSub].pc = "idle"
  /\ IF ~cookie.present
     THEN /\ ws' = [ws EXCEPT !.main = "refused"]
          /\ UNCHANGED <<agentSubscribers, subscribers>>
     ELSE \/ /\ ws' = [ws EXCEPT !.main = "failed", !.token = cookie.value]
             /\ UNCHANGED <<agentSubscribers, subscribers>>
          \/ /\ ws' = [ws EXCEPT !.main = "select", !.reader = "read", !.upgraded = TRUE,
                                  !.token = cookie.value]
             /\ agentSubscribers' = Append(agentSubscribers, WsSub)
             /\ subscribers' = [subscribers EXCEPT ![WsSub] = [@ EXCEPT !.pc = "subscribed"]]
  /\ UNCHANGED <<db, nextID, draws, agentEventChan, calls, tasks, usersFile, locks, clock, trust, crypt>>

\* everything but the session and the clock
WsRest == <<db, nextID, draws, agentEventChan, calls, tasks, usersFile, locks,
            agentSubscribers, subscribers, trust, crypt>>

\* the read loop, lines 206-212: conn.ReadJSON returns a message
ReadJSON(msg) ==
  /\ ws.reader = "read" /\ ws.main # "ended"
  /\ ws' = [ws EXCEPT !.msg = msg,
                      !.reader = IF msg.type = "get_agents" THEN "page" ELSE "write"]
  /\ UNCHANGED WsRest /\ UNCHANGED clock

\* the read loop, lines 208-213 and 205: conn.ReadJSON fails, the client or
\* the handler has closed the connection; the deferred close(done)
ReadError ==
  /\ ws.reader = "read"
  /\ ws' = [ws EXCEPT !.reader = "ended", !.done = TRUE]
  /\ UNCHANGED WsRest /\ UNCHANGED clock

\* the read loop, lines 219-221: currentPage = params.Page
AssignPage ==
  /\ ws.reader = "page"
  /\ ws' = [ws EXCEPT !.reader = "search",
                      !.currentPage = IF ws.msg.page >= 1 THEN ws.msg.page ELSE @]
  /\ UNCHANGED WsRest /\ UNCHANGED clock

\* the read loop, lines 223 and 227: currentSearch = params.Search, then
\* handleWSMessage up to the conn.WriteJSON of its send function
AssignSearch ==
  /\ ws.reader = "search"
  /\ ws' = [ws EXCEPT !.reader = "write", !.currentSearch = ws.msg.search]
  /\ UNCHANGED WsRest /\ UNCHANGED clock

\* the read loop: conn.WriteJSON of the reply returns
ReplyWritten ==
  /\ ws.reader = "write"
  /\ ws' = [ws EXCEPT !.reader = "read"]
  /\ UNCHANGED WsRest /\ UNCHANGED clock

\* the select of lines 235-246 has a case that can proceed
SelectReady == ws.tick \/ ws.done \/ subscribers[WsSub].buf # <<>>

\* the ticker period passes while the handler waits in its select or in a
\* write on the connection; a handler that can proceed does so first. The
\* ticker's channel holds at most one tick
TickerFire ==
  /\ clock < MaxTicks * TickerPeriod
  /\ ~(ws.main = "select" /\ SelectReady)
  /\ clock' = clock + TickerPeriod
  /\ ws' = [ws EXCEPT !.tick = Running]
  /\ UNCHANGED WsRest

\* select, lines 236-240: case <-ticker.C
OnTick ==
  /\ ws.main = "select" /\ ws.tick
  /\ ws' = [ws EXCEPT !.tick = FALSE,
                      !.main = IF ValidateDashboardToken(ws.token, clock) # ""
                               THEN "close" ELSE "select"]
  /\ UNCHANGED WsRest /\ UNCHANGED clock

\* lines 238-239 and 188-190: the close message is written, the handler
\* returns, the connection is closed and the ticker stopped
CloseWritten ==
  /\ ws.main = "close"
  /\ ws' = [ws EXCEPT !.main = "ended", !.tick = FALSE]
  /\ UNCHANGED WsRest /\ UNCHANGED clock

\* select, lines 241-242: case <-agentEvents; sendAgentsUpdate reads
\* currentPage and currentSearch and reaches its conn.WriteJSON
OnEvent ==
  /\ ws.main = "select" /\ subscribers[WsSub].buf # <<>>
  /\ subscribers' = [subscribers EXCEPT ![WsSub] = [@ EXCEPT !.buf = Tail(@)]]
  /\ ws' = [ws EXCEPT !.main = "agents", !.readDuring = ws.reader]
  /\ UNCHANGED <<db, nextID, draws, agentEventChan, calls, tasks, usersFile, locks,
                 agentSubscribers, clock, trust, crypt>>

\* lines 242-243: the agents update is written; sendStatsUpdate reaches its
\* conn.WriteJSON
AgentsWritten ==
  /\ ws.main = "agents"
  /\ ws' = [ws EXCEPT !.main = "stats", !.updateAt = clock]
  /\ UNCHANGED WsRest /\ UNCHANGED clock

\* line 243: the stats update is written, back to the select
StatsWritten ==
  /\ ws.main = "stats"
  /\ ws' = [ws EXCEPT !.main = "select", !.updateAt = clock]
  /\ UNCHANGED WsRest /\ UNCHANGED clock

\* select, lines 244-245: case <-done
OnDone ==
  /\ ws.main = "select" /\ ws.done
  /\ ws' = [ws EXCEPT !.main = "ended", !.tick = FALSE]
  /\ UNCHANGED WsRest /\ UNCHANGED clock

\* the registrations whose events the session is told of
WsCallStep(c) ==
  \/ RegisterStart(c, FileInput(c))
  \/ RegisterCreate(c)

NextWs ==
  \/ \E c \in Calls : WsCallStep(c)
  \/ \E cookie \in WsCookies : handleWebSocket(cookie)
  \/ \E msg \in WSMessages : ReadJSON(msg)
  \/ ReadError
  \/ AssignPage
  \/ AssignSearch
  \/ ReplyWritten
  \/ TickerFire
  \/ OnTick
  \/ CloseWritten
  \/ OnEvent
  \/ AgentsWritten
  \/ StatsWritten
  \/ OnDone

SpecWs == Init /\ [][NextWs]_vars

\* the goroutines inside a write on the connection
Writers ==
  (IF ws.main \in {"agents", "stats", "close"} THEN {"loop"} ELSE {})
  \cup (IF ws.reader = "write" THEN {"reader"} ELSE {})

\* C28: on one websocket connection at most one goroutine writes a message
\* at any time: a reply of the read loop never overlaps with an update or
\* close message of the event/ticker loop, and the event loop never reads
\* the page and search values while the read loop is writing them.
C28_OneWriter ==
  /\ Cardinality(Writers) <= 1
  /\ ws.readDuring # "search"

\* C29: a session ends at the first tick at which its token fails
\* validation, so it gets no agent or stats update later than one tick
\* interval after the token expired; a request to /ws without the
\* dashboard_token cookie is never upgraded.
C29_NoUpdateAfterExpiry ==
  /\ (ws.token.exp # NoExp /\ ws.updateAt >= 0) => ws.updateAt <= ws.token.exp + TickerPeriod
  /\ ws.main = "refused" => ~ws.upgraded

\* task c has ended without its temporary file under its temporary name,
\* without a lock and without an open lock file
CleanedUp(c) ==
  tasks[c].pc = "done" =>
    /\ ~tasks[c].temp
    /\ \A l \in locks : l[2] # c
    /\ tasks[c].fh = NoIno

\* C30: every regeneration task terminates, after at most 25 lock attempts,
\* and on every exit path (listing, render or write error, lock timeout,
\* rename error, chmod error, success) its temporary file no longer exists
\* under its temporary name and any lock it acquired has been released.
C30_TaskTerminatesClean ==
  /\ [](\A c \in Calls : CleanedUp(c) /\ tasks[c].n < 25)
  /\ \A c \in Calls : (tasks[c].pc # "none") ~> (tasks[c].pc = "done")

\* one task gave up after its 25th lock attempt and another, which held the
\* lock meanwhile, ended on a failure after creating its temporary file; both
\* have ended with nothing left behind
C30_Witness ==
  \E c, d \in Calls :
    /\ tasks[c].pc = "done" /\ tasks[c].err = ErrLockTimeout
    /\ tasks[d].pc = "done" /\ tasks[d].err \in {"rename", "chmod"}
    /\ locks = {}
    /\ ~tasks[c].temp /\ ~tasks[d].temp
====
